---- MODULE Spec2Model ----
(***************************************************************************)
(* bulls-analytics: the statistical aggregation layer                      *)
(* (src/bulls/analysis/stats.py) over tables produced by the fetch layer   *)
(* (src/bulls/data/fetch.py).                                              *)
(*                                                                         *)
(* Number representation                                                   *)
(*   - counting stats are Python/numpy integers: TLA+ integers;            *)
(*   - one-decimal values (percentages, Series.round(1) results) are kept  *)
(*     as an integer number of tenths;                                     *)
(*   - Python floats whose exact bits decide an outcome (means, the        *)
(*     1.1 / 0.9 thresholds) are IEEE-754 binary64 values                  *)
(*     [m |-> mantissa, e |-> exponent], value m * 2^e, the mantissa a     *)
(*     53-bit natural held as little-endian limbs of 15 bits, because a    *)
(*     53-bit mantissa does not fit a 32-bit integer.                      *)
(*                                                                         *)
(* State                                                                   *)
(*   - player_games: the table handed to the function called;              *)
(*   - call: the function called last and its arguments;                   *)
(*   - result: what that call returned, or the exception it raised, a      *)
(*     record [raised |-> its type];                                       *)
(*   - api: what the NBA API answers to the fetch layer, per endpoint      *)
(*     (games, box_scores by game id, shot_charts by team id): an          *)
(*     exception raised or the data frames returned.  The aggregators      *)
(*     read no API and run with api = NoApi.                               *)
(***************************************************************************)
EXTENDS Integers, Sequences, FiniteSets, TLC

VARIABLES player_games, call, result, api

vars == <<player_games, call, result, api>>

----------------------------------------------------------------------------
(* Naturals of any size: little-endian limbs, no high zero limb, 0 = <<>>. *)

Base == 2^15

MantBits == 52 + 1

RECURSIVE BigTrim(_)
BigTrim(a) ==
    IF a = <<>> THEN a
    ELSE IF a[Len(a)] = 0 THEN BigTrim(SubSeq(a, 1, Len(a) - 1)) ELSE a

RECURSIVE BigFromNat(_)
BigFromNat(n) ==
    IF n = 0 THEN <<>> ELSE <<n % Base>> \o BigFromNat(n \div Base)

RECURSIVE BigAddC(_, _, _)
BigAddC(a, b, c) ==
    IF a = <<>> /\ b = <<>> THEN (IF c = 0 THEN <<>> ELSE <<c>>)
    ELSE LET x == IF a = <<>> THEN 0 ELSE Head(a)
             y == IF b = <<>> THEN 0 ELSE Head(b)
             s == x + y + c
         IN  <<s % Base>> \o BigAddC(IF a = <<>> THEN a ELSE Tail(a),
                                     IF b = <<>> THEN b ELSE Tail(b),
                                     s \div Base)

BigAdd(a, b) == BigAddC(a, b, 0)

RECURSIVE BigMulSmallC(_, _, _)
BigMulSmallC(a, s, c) ==
    IF a = <<>> THEN BigFromNat(c)
    ELSE LET p == Head(a) * s + c
         IN  <<p % Base>> \o BigMulSmallC(Tail(a), s, p \div Base)

BigMulSmall(a, s) == BigTrim(BigMulSmallC(a, s, 0))

RECURSIVE BigMulRaw(_, _)
BigMulRaw(a, b) ==
    IF b = <<>> THEN <<>>
    ELSE BigAdd(BigMulSmallC(a, Head(b), 0), <<0>> \o BigMulRaw(a, Tail(b)))

BigMul(a, b) == BigTrim(BigMulRaw(a, b))

(* quotient and remainder by a divisor d with 0 < d <= Base *)
RECURSIVE BigDivRaw(_, _)
BigDivRaw(a, d) ==
    IF a = <<>> THEN [q |-> <<>>, r |-> 0]
    ELSE LET hi  == BigDivRaw(Tail(a), d)
             cur == hi.r * Base + Head(a)
         IN  [q |-> <<cur \div d>> \o hi.q, r |-> cur % d]

BigDivSmall(a, d) ==
    LET qr == BigDivRaw(a, d) IN [q |-> BigTrim(qr.q), r |-> qr.r]

RECURSIVE BitLenNat(_)
BitLenNat(n) == IF n = 0 THEN 0 ELSE 1 + BitLenNat(n \div 2)

BigBitLen(a) ==
    IF a = <<>> THEN 0 ELSE 15 * (Len(a) - 1) + BitLenNat(a[Len(a)])

Zeros(k) == [i \in 1..k |-> 0]

BigShl(a, k) ==
    IF a = <<>> THEN a ELSE Zeros(k \div 15) \o BigMulSmall(a, 2^(k % 15))

(* floor(a / 2^k), and whether any of the k dropped bits was set *)
BigShr(a, k) ==
    LET w    == k \div 15
        low  == SubSeq(a, 1, IF w < Len(a) THEN w ELSE Len(a))
        high == IF w < Len(a) THEN SubSeq(a, w + 1, Len(a)) ELSE <<>>
        qr   == BigDivSmall(high, 2^(k % 15))
    IN  [q |-> qr.q, lost |-> qr.r # 0 \/ \E i \in 1..Len(low) : low[i] # 0]

BigOdd(a) == a # <<>> /\ a[1] % 2 = 1

RECURSIVE BigLessAt(_, _, _)
BigLessAt(a, b, i) ==
    IF i = 0 THEN FALSE
    ELSE IF a[i] # b[i] THEN a[i] < b[i] ELSE BigLessAt(a, b, i - 1)

BigLess(a, b) ==
    IF Len(a) # Len(b) THEN Len(a) < Len(b) ELSE BigLessAt(a, b, Len(a))

----------------------------------------------------------------------------
(* binary64, non-negative values, round to nearest, ties to even.          *)

FZero == [m |-> <<>>, e |-> 0]

(* a / 2^k rounded to the nearest integer, ties to even; sticky says that  *)
(* a itself already dropped a non-zero fraction                            *)
RoundShift(a, k, sticky) ==
    LET t    == BigShr(a, k - 1)
        q    == BigShr(t.q, 1).q
        half == BigOdd(t.q)
        up   == half /\ (t.lost \/ sticky \/ BigOdd(q))
    IN  IF up THEN BigAdd(q, <<1>>) ELSE q

(* the binary64 nearest to n * 2^e (+ a fraction below one unit of n when  *)
(* sticky), n > 0                                                          *)
FRound(n, sticky, e) ==
    LET L == BigBitLen(n)
    IN  IF L <= MantBits
        THEN [m |-> BigShl(n, MantBits - L), e |-> e - (MantBits - L)]
        ELSE LET k == L - MantBits
                 r == RoundShift(n, k, sticky)
             IN  IF BigBitLen(r) > MantBits
                 THEN [m |-> BigShr(r, 1).q, e |-> e + k + 1]
                 ELSE [m |-> r, e |-> e + k]

(* float(p) / float(q) for integers p >= 0, 0 < q < Base *)
FromRatio(p, q) ==
    IF p = 0 THEN FZero
    ELSE LET d == BigDivSmall(BigShl(BigFromNat(p), 75), q)
         IN  FRound(d.q, d.r # 0, -75)

FromNat(p) == FromRatio(p, 1)

FMul(x, y) ==
    IF x = FZero \/ y = FZero THEN FZero
    ELSE FRound(BigMul(x.m, y.m), FALSE, x.e + y.e)

FAdd(x, y) ==
    IF x = FZero THEN y
    ELSE IF y = FZero THEN x
    ELSE LET e == IF x.e < y.e THEN x.e ELSE y.e
         IN  FRound(BigAdd(BigShl(x.m, x.e - e), BigShl(y.m, y.e - e)), FALSE, e)

(* x / float(q) for an integer 0 < q < Base *)
FDivNat(x, q) ==
    IF x = FZero THEN FZero
    ELSE LET d == BigDivSmall(BigShl(x.m, 30), q)
         IN  FRound(d.q, d.r # 0, x.e - 30)

FLess(x, y) ==
    IF y = FZero THEN FALSE
    ELSE IF x = FZero THEN TRUE
    ELSE IF x.e # y.e THEN x.e < y.e
    ELSE BigLess(x.m, y.m)

----------------------------------------------------------------------------
(* Tables (pandas DataFrames) are sequences of rows, newest game first; a  *)
(* row is a record of its columns.  A dict result is a record; {} is <<>>. *)

EmptyDict == <<>>

EmptyNever(t) == FALSE

Empty(t) == t = <<>>

Columns(t) == IF t = <<>> THEN {} ELSE DOMAIN t[1]

SeqsUpTo(S, n) == UNION {[1..k -> S] : k \in 0..n}

RECURSIVE SumSeq(_)
SumSeq(s) == IF s = <<>> THEN 0 ELSE Head(s) + SumSeq(Tail(s))

MaxSeq(s) == CHOOSE x \in {s[i] : i \in 1..Len(s)} : \A i \in 1..Len(s) : s[i] <= x

MinSeq(s) == CHOOSE x \in {s[i] : i \in 1..Len(s)} : \A i \in 1..Len(s) : x <= s[i]

Reverse(s) == [i \in 1..Len(s) |-> s[Len(s) + 1 - i]]

(* num / den rounded to the nearest integer, ties to the even one          *)
(* (numpy's rint), for num >= 0 and den > 0.  The quotient is exact here;  *)
(* the binary64 quotient rounds the same way unless the exact value is a   *)
(* tie that binary64 cannot hold, which the input tables below avoid.      *)
RoundDiv(num, den) ==
    LET q == num \div den
        r == num % den
    IN  IF 2 * r > den \/ (2 * r = den /\ q % 2 = 1) THEN q + 1 ELSE q

(* (made / attempted.replace(0, 1) * 100).round(1), in tenths *)
Pct(made, attempted) ==
    RoundDiv(1000 * made, IF attempted = 0 THEN 1 ELSE attempted)

(* one row of get_player_games: the box-score line and its percentages *)
PlayerRow(pts, reb, ast, stl, blk, fgm, fga, fg3m, fg3a, fta) ==
    [points |-> pts, rebounds |-> reb, assists |-> ast, steals |-> stl,
     blocks |-> blk, fg_made |-> fgm, fg_attempted |-> fga,
     fg3_made |-> fg3m, fg3_attempted |-> fg3a, ft_attempted |-> fta,
     fg_pct |-> Pct(fgm, fga), fg3_pct |-> Pct(fg3m, fg3a)]

(* columns holding one-decimal floats (tenths); the others hold integers *)
TenthsColumns == {"fg_pct", "fg3_pct"}

ToFloat(c, v) == IF c \in TenthsColumns THEN FromRatio(v, 10) ELSE FromNat(v)

Column(t, c) == [i \in 1..Len(t) |-> t[i][c]]

FloatColumn(t, c) == [i \in 1..Len(t) |-> ToFloat(c, t[i][c])]

(* df[key] on a table without that column raises KeyError, and the         *)
(* aggregators catch nothing: the call ends with the exception             *)
KeyError(key) == [raised |-> "KeyError", key |-> key]

(* the columns among those read, in the order the code reads them, that    *)
(* the table lacks                                                         *)
Missing(t, reads) == SelectSeq(reads, LAMBDA c : c \notin Columns(t))

CallerAfterAssignAliased(caller, df) == df

(* the caller's table once the function has assigned columns to df, where  *)
(* df is a .copy() of it: a separate object, so the caller's is as it was  *)
CallerAfterAssign(caller, df) == caller

----------------------------------------------------------------------------
(* season_averages *)

(* numpy's float64 sum of fewer than 8 elements: left to right from 0.0 *)
RECURSIVE FSum(_)
FSum(fs) ==
    IF fs = <<>> THEN FZero
    ELSE FAdd(FSum(SubSeq(fs, 1, Len(fs) - 1)), fs[Len(fs)])

SeriesMeanOffByOne(fs) == FDivNat(FSum(fs), Len(fs) + 1)

(* Series.mean(): the float64 sum divided by the count *)
SeriesMean(fs) == FDivNat(FSum(fs), Len(fs))

SeasonAveragesReads ==
    <<"points", "rebounds", "assists", "steals", "blocks", "fg_pct", "fg3_pct">>

season_averages(t) ==
    IF Empty(t) THEN EmptyDict
    ELSE IF Missing(t, SeasonAveragesReads) /= <<>>
    THEN KeyError(Missing(t, SeasonAveragesReads)[1])
    ELSE [games    |-> Len(t),
          points   |-> SeriesMean(FloatColumn(t, "points")),
          rebounds |-> SeriesMean(FloatColumn(t, "rebounds")),
          assists  |-> SeriesMean(FloatColumn(t, "assists")),
          steals   |-> SeriesMean(FloatColumn(t, "steals")),
          blocks   |-> SeriesMean(FloatColumn(t, "blocks")),
          fg_pct   |-> SeriesMean(FloatColumn(t, "fg_pct")),
          fg3_pct  |-> SeriesMean(FloatColumn(t, "fg3_pct"))]

SeasonAverages ==
    /\ call' = [fn |-> "season_averages"]
    /\ result' = season_averages(player_games)
    /\ UNCHANGED <<player_games, api>>

----------------------------------------------------------------------------
(* scoring_trend *)

RecentGames == 5

TrendGames == 10

TakeFirst(s, n) == SubSeq(s, 1, IF n < Len(s) THEN n ELSE Len(s))

(* values[:5] if len(values) >= 5 else values *)
RecentWindow(values) ==
    IF Len(values) >= RecentGames THEN TakeFirst(values, RecentGames) ELSE values

(* values[5:10] if len(values) >= 10 else values[len(recent):] *)
PreviousWindow(values) ==
    IF Len(values) >= TrendGames
    THEN SubSeq(values, RecentGames + 1, TrendGames)
    ELSE SubSeq(values, Len(RecentWindow(values)) + 1, Len(values))

(* sum(w) / len(w) for a non-empty list of Python ints *)
ListMean(w) == FromRatio(SumSeq(w), Len(w))

PreviousAvgNoBaseline(previous, recent_avg) ==
    IF previous # <<>> THEN ListMean(previous) ELSE FZero

(* sum(previous) / len(previous) if previous else recent_avg *)
PreviousAvg(previous, recent_avg) ==
    IF previous # <<>> THEN ListMean(previous) ELSE recent_avg

Direction(recent_avg, previous_avg) ==
    IF FLess(FMul(previous_avg, FromRatio(11, 10)), recent_avg) THEN "up"
    ELSE IF FLess(recent_avg, FMul(previous_avg, FromRatio(9, 10))) THEN "down"
    ELSE "stable"

scoring_trend(t, metric) ==
    IF Empty(t) \/ metric \notin Columns(t) THEN EmptyDict
    ELSE LET values       == Column(t, metric)
             recent       == RecentWindow(values)
             previous     == PreviousWindow(values)
             recent_avg   == IF recent # <<>> THEN ListMean(recent) ELSE FZero
             previous_avg == PreviousAvg(previous, recent_avg)
         IN  [direction  |-> Direction(recent_avg, previous_avg),
              average    |-> ListMean(values),
              recent_avg |-> recent_avg,
              high       |-> MaxSeq(values),
              low        |-> MinSeq(values),
              last_game  |-> values[1]]

ScoringTrend(metric) ==
    /\ call' = [fn |-> "scoring_trend", metric |-> metric]
    /\ result' = scoring_trend(player_games, metric)
    /\ UNCHANGED <<player_games, api>>

----------------------------------------------------------------------------
(* rolling_averages *)

(* a value of column c in tenths *)
TenthsOf(c, v) == IF c \in TenthsColumns THEN v ELSE 10 * v

ChronologicalKeepOrder(t) == t

(* df.iloc[::-1]: newest-first to oldest-first, and back *)
Chronological(t) == Reverse(t)

RollingMeanWide(c, col, w, j) ==
    LET first == IF j - w > 1 THEN j - w ELSE 1
        win   == SubSeq(col, first, j)
    IN  RoundDiv(SumSeq([i \in 1..Len(win) |-> TenthsOf(c, win[i])]), Len(win))

(* Series.rolling(window=w, min_periods=1).mean().round(1) at position j   *)
(* of a column in chronological order, in tenths                           *)
RollingMean(c, col, w, j) ==
    LET first == IF j - w + 1 > 1 THEN j - w + 1 ELSE 1
        win   == SubSeq(col, first, j)
    IN  RoundDiv(SumSeq([i \in 1..Len(win) |-> TenthsOf(c, win[i])]), Len(win))

(* an optional argument: None, or a given set of values *)
None == [given |-> FALSE]

Given(values) == [given |-> TRUE, values |-> values]

DefaultMetrics == {"points", "rebounds", "assists"}

DefaultWindows == {3, 5, 10}

MetricsOrDefault(metrics) ==
    IF metrics.given THEN metrics.values ELSE DefaultMetrics

WindowsOrDefault(windows) ==
    IF windows.given THEN windows.values ELSE DefaultWindows

(* the added column '{metric}_roll_{window}' is field roll[<<metric, window>>] *)
rolling_averages(t, metrics, windows) ==
    IF Empty(t) THEN t
    ELSE LET df_reversed == Chronological(t)
             added == {mw \in MetricsOrDefault(metrics) \X WindowsOrDefault(windows) :
                          mw[1] \in Columns(t)}
             rolled ==
                 [j \in 1..Len(t) |->
                     [roll |-> [mw \in added |->
                                   RollingMean(mw[1], Column(df_reversed, mw[1]),
                                               mw[2], j)]]
                         @@ df_reversed[j]]
         IN  Chronological(rolled)

RollingAverages(metrics, windows) ==
    /\ call' = [fn |-> "rolling_averages", metrics |-> metrics, windows |-> windows]
    /\ result' = rolling_averages(player_games, metrics, windows)
    /\ player_games' = CallerAfterAssign(player_games, result')
    /\ UNCHANGED api

----------------------------------------------------------------------------
(* consistency_score *)

NaN == [nan |-> TRUE]

Num(tenths) == [nan |-> FALSE, tenths |-> tenths]

SumSquares(s) == SumSeq([i \in 1..Len(s) |-> s[i] * s[i]])

(* n * (n - 1) * variance: n * sum(x^2) - sum(x)^2 *)
Spread(values) ==
    Len(values) * SumSquares(values) - SumSeq(values) * SumSeq(values)

(* the largest t in lo..hi with t = 0 or (2t - 1)^2 * Q <= 4 * P *)
RECURSIVE SqrtSearch(_, _, _, _)
SqrtSearch(P4, Q, lo, hi) ==
    IF lo = hi THEN lo
    ELSE LET mid == (lo + hi + 1) \div 2
             sq  == BigMul(BigFromNat((2 * mid - 1) * (2 * mid - 1)), Q)
         IN  IF ~BigLess(P4, sq) THEN SqrtSearch(P4, Q, mid, hi)
             ELSE SqrtSearch(P4, Q, lo, mid - 1)

(* sqrt(P / Q) rounded to the nearest integer, ties to even; P, Q limbs *)
RoundSqrt(P, Q) ==
    LET P4 == BigMulSmall(P, 4)
        t  == SqrtSearch(P4, Q, 0, 2^12)
        tie == t > 0 /\ BigMul(BigFromNat((2 * t - 1) * (2 * t - 1)), Q) = P4
    IN  IF tie /\ t % 2 = 1 THEN t - 1 ELSE t

(* round(values.std(), 1): the sample standard deviation (ddof = 1), NaN   *)
(* for a single value                                                      *)
StdTenths(values) ==
    LET n == Len(values)
    IN  IF n = 1 THEN NaN
        ELSE Num(RoundSqrt(BigFromNat(100 * Spread(values)), BigFromNat(n * (n - 1))))

CvTenthsUnguarded(values) ==
    LET n == Len(values)
        S == SumSeq(values)
    IN  IF n = 1 \/ S = 0 THEN NaN
        ELSE Num(RoundSqrt(BigMul(BigFromNat(1000000), BigFromNat(n * Spread(values))),
                           BigFromNat((n - 1) * S * S)))

(* round((std_val / mean_val * 100) if mean_val > 0 else 0.0, 1) *)
CvTenths(values) ==
    LET n == Len(values)
        S == SumSeq(values)
    IN  IF S = 0 THEN Num(0)
        ELSE IF n = 1 THEN NaN
        ELSE Num(RoundSqrt(BigMul(BigFromNat(1000000), BigFromNat(n * Spread(values))),
                           BigFromNat((n - 1) * S * S)))

(* cv < threshold, for cv = std / mean * 100 with mean > 0 and n > 1:      *)
(* 10^4 * n * spread < threshold^2 * (n - 1) * sum^2                       *)
CvBelow(values, threshold) ==
    LET n == Len(values)
        S == SumSeq(values)
    IN  BigLess(BigMul(BigFromNat(10000), BigFromNat(n * Spread(values))),
                BigMul(BigFromNat(threshold * threshold), BigFromNat((n - 1) * S * S)))

CvAtMost(values, threshold) ==
    LET n == Len(values)
        S == SumSeq(values)
    IN  ~BigLess(BigMul(BigFromNat(threshold * threshold), BigFromNat((n - 1) * S * S)),
                 BigMul(BigFromNat(10000), BigFromNat(n * Spread(values))))

CategoryInclusiveUpper(values) ==
    IF SumSeq(values) = 0 THEN "very_consistent"
    ELSE IF Len(values) = 1 THEN "volatile"
    ELSE IF CvAtMost(values, 20) THEN "very_consistent"
    ELSE IF CvAtMost(values, 35) THEN "consistent"
    ELSE IF CvAtMost(values, 50) THEN "moderate"
    ELSE "volatile"

(* the if/elif chain on cv; every comparison with a NaN cv is false *)
Category(values) ==
    IF SumSeq(values) = 0 THEN "very_consistent"
    ELSE IF Len(values) = 1 THEN "volatile"
    ELSE IF CvBelow(values, 20) THEN "very_consistent"
    ELSE IF CvBelow(values, 35) THEN "consistent"
    ELSE IF CvBelow(values, 50) THEN "moderate"
    ELSE "volatile"

consistency_score(t, metrics) ==
    IF Empty(t) THEN EmptyDict
    ELSE [metric \in MetricsOrDefault(metrics) \cap Columns(t) |->
             LET values == Column(t, metric)
             IN  [mean     |-> Num(RoundDiv(10 * SumSeq(values), Len(values))),
                  std      |-> StdTenths(values),
                  cv       |-> CvTenths(values),
                  category |-> Category(values),
                  high     |-> MaxSeq(values),
                  low      |-> MinSeq(values)]]

ConsistencyScore(metrics) ==
    /\ call' = [fn |-> "consistency_score", metrics |-> metrics]
    /\ result' = consistency_score(player_games, metrics)
    /\ UNCHANGED <<player_games, api>>

----------------------------------------------------------------------------
(* efficiency_metrics and game_efficiency *)

TrueShootingAttemptsUnweighted(fga, fta) == 100 * fga + 100 * fta

(* fga + 0.44 * fta, in hundredths *)
TrueShootingAttempts(fga, fta) == 100 * fga + 44 * fta

(* pts / (2 * tsa) * 100 rounded to one decimal, in tenths; tsa in hundredths *)
TsTenths(pts, tsa) == RoundDiv(100000 * pts, 2 * tsa)

(* (fgm + 0.5 * fg3m) / fga * 100 rounded to one decimal, in tenths *)
EfgTenths(fgm, fg3m, fga) == RoundDiv(1000 * (2 * fgm + fg3m), 2 * fga)

ColumnSum(t, c) == SumSeq(Column(t, c))

EfficiencyMetricsReads == <<"points", "fg_attempted", "fg_made", "fg3_made">>

efficiency_metrics(t) ==
    IF Empty(t) THEN EmptyDict
    ELSE IF Missing(t, EfficiencyMetricsReads) /= <<>>
    THEN KeyError(Missing(t, EfficiencyMetricsReads)[1])
    ELSE LET total_pts  == ColumnSum(t, "points")
             total_fga  == ColumnSum(t, "fg_attempted")
             total_fta  == IF "ft_attempted" \in Columns(t)
                           THEN ColumnSum(t, "ft_attempted") ELSE 0
             total_fgm  == ColumnSum(t, "fg_made")
             total_fg3m == ColumnSum(t, "fg3_made")
             tsa        == TrueShootingAttempts(total_fga, total_fta)
         IN  [ts_pct  |-> IF tsa > 0 THEN TsTenths(total_pts, tsa) ELSE 0,
              efg_pct |-> IF total_fga > 0
                          THEN EfgTenths(total_fgm, total_fg3m, total_fga) ELSE 0,
              games   |-> Len(t)]

EfficiencyMetrics ==
    /\ call' = [fn |-> "efficiency_metrics"]
    /\ result' = efficiency_metrics(player_games)
    /\ UNCHANGED <<player_games, api>>

(* Series.replace(0, 1) on one value *)
ReplaceZero(x, one) == IF x = 0 THEN one ELSE x

GameEfficiencyReads == <<"fg_attempted", "points", "fg_made", "fg3_made">>

game_efficiency(t) ==
    IF Empty(t) THEN t
    ELSE IF Missing(t, GameEfficiencyReads) /= <<>>
    THEN KeyError(Missing(t, GameEfficiencyReads)[1])
    ELSE [i \in 1..Len(t) |->
             LET df  == t[i]
                 fta == IF "ft_attempted" \in Columns(t) THEN df.ft_attempted ELSE 0
                 tsa == TrueShootingAttempts(df.fg_attempted, fta)
             IN  [ts_pct  |-> TsTenths(df.points, ReplaceZero(tsa, 100)),
                  efg_pct |-> EfgTenths(df.fg_made, df.fg3_made,
                                        ReplaceZero(df.fg_attempted, 1))]
                     @@ df]

(* df as the call leaves it; an exception ends the call before df is      *)
(* returned                                                                *)
GameEfficiency ==
    LET df == IF Missing(player_games, GameEfficiencyReads) /= <<>>
              THEN player_games ELSE game_efficiency(player_games)
    IN  /\ call' = [fn |-> "game_efficiency"]
        /\ result' = game_efficiency(player_games)
        /\ player_games' = CallerAfterAssign(player_games, df)
        /\ UNCHANGED api

----------------------------------------------------------------------------
(* Inputs and specifications *)

NoCall == [fn |-> "none"]

(* the aggregators read no API: nothing is fetched *)
NoApi == <<>>

MaxAvgGames == 3

AvgRows ==
    { PlayerRow(10, 5, 3, 1, 0, 4, 8, 2, 15, 0),
      PlayerRow(20, 5, 3, 1, 0, 8, 16, 2, 15, 2),
      PlayerRow(30, 5, 3, 1, 0, 12, 24, 2, 5, 4),
      PlayerRow(24, 7, 4, 2, 1, 9, 20, 1, 3, 6) }

InitAvg ==
    /\ player_games \in SeqsUpTo(AvgRows, MaxAvgGames)
    /\ call = NoCall
    /\ result = EmptyDict
    /\ api = NoApi

NextAvg == SeasonAverages

SpecAvg == InitAvg /\ [][NextAvg]_vars

(* a game line with the given points, all from two-point field goals and   *)
(* free throws                                                             *)
PointsRow(p) == PlayerRow(p, 5, 3, 1, 0, p \div 2, 8 + p \div 2, 0, 0, p % 2)

PointsTable(ps) == [i \in 1..Len(ps) |-> PointsRow(ps[i])]

MaxTrendGames == 11

TrendValues == {13, 26}

ShortValues == {0, 7, 10, 11, 33}

TrendScenarios ==
    { <<30, 28, 26, 24, 22, 18, 16, 14, 12, 10>>,
      <<10, 12, 14, 16, 18, 22, 24, 26, 28, 30>>,
      <<20, 21, 19, 20, 21, 20, 19, 21, 20, 19>>,
      <<11, 11, 11, 11, 11, 10>>,
      <<9, 9, 9, 9, 9, 10>>,
      <<23, 23, 23, 24, 24, 26>>,
      <<8, 8, 8, 8, 8, 9, 9, 9, 9, 9, 0>>,
      <<10, 10, 10, 10, 10, 5, 5, 5, 5, 5, 99>> }

TrendInputs ==
    SeqsUpTo(TrendValues, MaxTrendGames)
        \cup SeqsUpTo(ShortValues, RecentGames - 1)
        \cup TrendScenarios

TrendMetrics == {"points", "plus_minus"}

InitTrend ==
    /\ player_games \in {PointsTable(ps) : ps \in TrendInputs}
    /\ call = NoCall
    /\ result = EmptyDict
    /\ api = NoApi

NextTrend == \E metric \in TrendMetrics : ScoringTrend(metric)

SpecTrend == InitTrend /\ [][NextTrend]_vars

MaxRollGames == 4

MaxWindow == 3

(* game lines with 10, 20 and 30 points; their fg_pct (40.0, 50.0, 44.4)  *)
(* are multiples of 0.4, so no window mean of up to 5 of them is a         *)
(* rounding tie                                                            *)
RollRows ==
    { PlayerRow(10, 5, 3, 1, 0, 4, 10, 2, 6, 0),
      PlayerRow(20, 5, 3, 1, 0, 8, 16, 2, 5, 2),
      PlayerRow(30, 5, 3, 1, 0, 12, 27, 3, 8, 4) }

RollMetricChoices ==
    {None, Given({"points", "fg_pct"}), Given({"points", "nonexistent"})}

RollWindowChoices ==
    {None, Given({1, MaxWindow})} \cup {Given({w}) : w \in 1..MaxWindow}

InitRoll ==
    /\ player_games \in SeqsUpTo(RollRows, MaxRollGames)
    /\ call = NoCall
    /\ result = EmptyDict
    /\ api = NoApi

NextRoll ==
    \E metrics \in RollMetricChoices, windows \in RollWindowChoices :
        RollingAverages(metrics, windows)

SpecRoll == InitRoll /\ [][NextRoll]_vars

MaxConsistencyGames == 4

ConsistencyValues == {0, 2, 4, 5, 6}

ConsistencyMetricChoices ==
    {None, Given({"points"}), Given({"blocks", "nonexistent"})}

InitConsistency ==
    /\ player_games \in
           {PointsTable(ps) : ps \in SeqsUpTo(ConsistencyValues, MaxConsistencyGames)}
    /\ call = NoCall
    /\ result = EmptyDict
    /\ api = NoApi

NextConsistency ==
    \E metrics \in ConsistencyMetricChoices : ConsistencyScore(metrics)

SpecConsistency == InitConsistency /\ [][NextConsistency]_vars

MaxEfficiencyGames == 3

(* game lines: no attempts at all; 30 points on 12/20 shooting; 2 points   *)
(* from free throws alone; 20 points on 8/15; 9 points on 3/8, all threes  *)
EfficiencyRows ==
    { PlayerRow(0, 2, 1, 0, 0, 0, 0, 0, 0, 0),
      PlayerRow(30, 5, 3, 1, 0, 12, 20, 2, 6, 4),
      PlayerRow(2, 1, 0, 0, 0, 0, 0, 0, 0, 2),
      PlayerRow(20, 4, 6, 2, 1, 8, 15, 2, 7, 4),
      PlayerRow(9, 3, 2, 0, 0, 3, 8, 3, 8, 0) }

DropColumn(row, c) == [k \in DOMAIN row \ {c} |-> row[k]]

WithoutColumn(t, c) == [i \in 1..Len(t) |-> DropColumn(t[i], c)]

EfficiencyTables ==
    LET full == SeqsUpTo(EfficiencyRows, MaxEfficiencyGames)
    IN  full \cup {WithoutColumn(t, "ft_attempted") : t \in full}

InitEfficiency ==
    /\ player_games \in EfficiencyTables
    /\ call = NoCall
    /\ result = EmptyDict
    /\ api = NoApi

NextEfficiency == EfficiencyMetrics \/ GameEfficiency

SpecEfficiency == InitEfficiency /\ [][NextEfficiency]_vars

----------------------------------------------------------------------------
(* Claims *)

IntColumns == {"points", "rebounds", "assists", "steals", "blocks"}

AverageKeys == {"games"} \cup IntColumns \cup TenthsColumns

IsConstant(col) == \A i \in 1..Len(col) : col[i] = col[1]

(* |x - y| <= k units in the last place of the larger of x and y *)
FWithin(x, y, k) ==
    IF x = FZero \/ y = FZero THEN x = y
    ELSE LET lo == IF x.e < y.e THEN x.e ELSE y.e
             hi == IF x.e < y.e THEN y.e ELSE x.e
             X  == BigShl(x.m, x.e - lo)
             Y  == BigShl(y.m, y.e - lo)
             T  == BigShl(BigFromNat(k), hi - lo)
         IN  ~BigLess(BigAdd(X, T), Y) /\ ~BigLess(BigAdd(Y, T), X)

SeasonAveragesCalled == call.fn = "season_averages"

(* C1 (as amended): season_averages on a non-empty table returns games =   *)
(* the number of rows; for each integer counting stat the binary64 value    *)
(* nearest to the arithmetic mean of the column (a constant column averages *)
(* exactly to the constant; points 10, 20, 30 gives 20.0); for fg_pct and   *)
(* fg3_pct the arithmetic mean up to binary64 rounding, within one unit in  *)
(* the last place per row; on an empty table it returns an empty dict.      *)
C1_SeasonAverages ==
    SeasonAveragesCalled =>
        IF player_games = <<>> THEN result = EmptyDict
        ELSE LET n == Len(player_games)
             IN  /\ DOMAIN result = AverageKeys
                 /\ result.games = n
                 /\ \A c \in IntColumns :
                        LET col == Column(player_games, c)
                        IN  /\ result[c] = FromRatio(SumSeq(col), n)
                            /\ IsConstant(col) => result[c] = FromNat(col[1])
                 /\ \A c \in TenthsColumns :
                        LET col == Column(player_games, c)
                        IN  FWithin(result[c], FromRatio(SumSeq(col), 10 * n), n)

C1_Witness ==
    /\ SeasonAveragesCalled
    /\ Column(player_games, "points") = <<10, 20, 30>>
    /\ result.points = FromNat(20)
    /\ result.games = 3

(* C1 (as stated): every one of the seven columns, when it holds the same  *)
(* constant in every row, averages to exactly that constant.               *)
C1_ConstantColumnExact ==
    (SeasonAveragesCalled /\ player_games # <<>>) =>
        \A c \in IntColumns \cup TenthsColumns :
            LET col == Column(player_games, c)
            IN  IsConstant(col) => result[c] = ToFloat(c, col[1])

TrendCalled ==
    /\ call.fn = "scoring_trend"
    /\ call.metric \in Columns(player_games)

TrendValuesOf == Column(player_games, call.metric)

(* C2: with more than 5 rows, recent = the first 5 rows, previous = rows   *)
(* 6..min(n, 10), and the direction is "up" exactly when                   *)
(* mean(recent) > 1.1 * mean(previous), "down" exactly when                *)
(* mean(recent) < 0.9 * mean(previous), "stable" otherwise (exactly 10% is *)
(* "stable").  Means compared exactly, by cross-multiplication.            *)
C2_TrendDirection ==
    (TrendCalled /\ Len(TrendValuesOf) > 5) =>
        LET v  == TrendValuesOf
            n  == Len(v)
            R  == SumSeq(SubSeq(v, 1, 5))
            k  == (IF n < 10 THEN n ELSE 10) - 5
            P  == SumSeq(SubSeq(v, 6, 5 + k))
        IN  result.direction =
                IF 10 * R * k > 11 * P * 5 THEN "up"
                ELSE IF 10 * R * k < 9 * P * 5 THEN "down"
                ELSE "stable"

(* C27: direction "up" comes with recent_avg strictly above the overall    *)
(* average, and "down" with recent_avg strictly below it, for every        *)
(* non-empty input of non-negative values.                                 *)
C27_TrendVsAverage ==
    TrendCalled =>
        /\ (result.direction = "up"
                => FLess(result.average, result.recent_avg))
        /\ (result.direction = "down"
                => FLess(result.recent_avg, result.average))

(* C3: with 1 to 4 games, all games are the recent window, the baseline is *)
(* the recent mean itself and the direction is "stable"; average is the    *)
(* mean of all values and last_game the first row's value.                 *)
C3_FewGamesStable ==
    (TrendCalled /\ Len(TrendValuesOf) < 5) =>
        LET v == TrendValuesOf
        IN  /\ result.direction = "stable"
            /\ result.recent_avg = FromRatio(SumSeq(v), Len(v))
            /\ result.average = FromRatio(SumSeq(v), Len(v))
            /\ result.last_game = v[1]

C3_Witness ==
    /\ TrendCalled
    /\ TrendValuesOf = <<33, 7, 11>>
    /\ result.direction = "stable"
    /\ result.last_game = 33

RollingCalled == call.fn = "rolling_averages"

RollingColumns ==
    {mw \in MetricsOrDefault(call.metrics) \X WindowsOrDefault(call.windows) :
        mw[1] \in Columns(player_games)}

(* the rows i .. min(i + w - 1, n) of the newest-first input: game i and   *)
(* the up-to-(w - 1) games immediately older                               *)
OlderWindow(c, i, w) ==
    LET n    == Len(player_games)
        last == IF i + w - 1 < n THEN i + w - 1 ELSE n
    IN  [k \in 1..(last - i + 1) |-> TenthsOf(c, player_games[i + k - 1][c])]

(* t is a tenth nearest to sum / count (both in tenths) *)
NearestTenth(t, sum, count) ==
    /\ 2 * (t * count - sum) <= count
    /\ 2 * (sum - t * count) <= count

SameRows(out, in) ==
    /\ Len(out) = Len(in)
    /\ \A i \in 1..Len(in) : \A c \in DOMAIN in[i] : out[i][c] = in[i][c]

(* C4 (as amended): rolling_averages returns the n rows in the same        *)
(* newest-first order, and column m_roll_w at row i is the mean of m over   *)
(* rows i .. min(i + w - 1, n), rounded to one decimal; points 30, 20, 10   *)
(* with w = 2 gives 25, 15, 10.                                             *)
C4_RollingWindow ==
    RollingCalled =>
        /\ SameRows(result, player_games)
        /\ \A i \in 1..Len(player_games) :
               /\ DOMAIN result[i].roll = RollingColumns
               /\ \A mw \in RollingColumns :
                      LET win == OlderWindow(mw[1], i, mw[2])
                      IN  NearestTenth(result[i].roll[mw], SumSeq(win), Len(win))

C4_Witness ==
    /\ RollingCalled
    /\ Column(player_games, "points") = <<30, 20, 10>>
    /\ <<"points", 2>> \in RollingColumns
    /\ [i \in 1..3 |-> result[i].roll[<<"points", 2>>]] = <<250, 150, 100>>

(* C4 (as stated): the value of m_roll_w at row i is the mean itself.      *)
C4_ExactMean ==
    RollingCalled =>
        \A i \in 1..Len(player_games) : \A mw \in RollingColumns :
            LET win == OlderWindow(mw[1], i, mw[2])
            IN  result[i].roll[mw] * Len(win) = SumSeq(win)

(* C5: with window size 1 the column m_roll_1 equals column m row for row. *)
C5_WindowOneIdentity ==
    RollingCalled =>
        \A i \in 1..Len(player_games) : \A mw \in RollingColumns :
            mw[2] = 1 =>
                result[i].roll[mw] = TenthsOf(mw[1], player_games[i][mw[1]])

C5_Witness ==
    /\ RollingCalled
    /\ Len(player_games) = 3
    /\ <<"fg_pct", 1>> \in RollingColumns
    /\ \A i \in 1..3 : result[i].roll[<<"fg_pct", 1>>] = player_games[i].fg_pct
    /\ player_games[1].points # player_games[2].points

ConsistencyCalled == call.fn = "consistency_score" /\ player_games # <<>>

C7_ZeroMeanCv ==
    ConsistencyCalled =>
        \A m \in DOMAIN result :
            SumSeq(Column(player_games, m)) = 0 => result[m].cv = Num(0)

C7_Witness ==
    /\ ConsistencyCalled
    /\ Len(player_games) = 3
    /\ "blocks" \in DOMAIN result
    /\ Column(player_games, "blocks") = <<0, 0, 0>>
    /\ result.blocks.cv = Num(0)

(* C8: for every non-empty table, down to a single game, the mean, std and *)
(* cv of every metric are defined numbers, never NaN.                      *)
C8_NeverNaN ==
    ConsistencyCalled =>
        \A m \in DOMAIN result :
            /\ ~result[m].mean.nan
            /\ ~result[m].std.nan
            /\ ~result[m].cv.nan

EfficiencyCalled == call.fn = "efficiency_metrics" /\ player_games # <<>>

TotalFta ==
    IF "ft_attempted" \in Columns(player_games)
    THEN ColumnSum(player_games, "ft_attempted") ELSE 0

(* C9: from the column totals, ts_pct = points / (2 * (FGA + 0.44 * FTA))  *)
(* * 100 and efg_pct = (FGM + 0.5 * 3PM) / FGA * 100, each rounded to one  *)
(* decimal, games = the row count; ts_pct is 0.0 when FGA + 0.44 * FTA is  *)
(* 0 and efg_pct is 0.0 when FGA is 0.                                     *)
C9_EfficiencyMetrics ==
    EfficiencyCalled =>
        LET pts  == ColumnSum(player_games, "points")
            fga  == ColumnSum(player_games, "fg_attempted")
            fgm  == ColumnSum(player_games, "fg_made")
            fg3m == ColumnSum(player_games, "fg3_made")
            den  == 2 * (100 * fga + 44 * TotalFta)
        IN  /\ result.games = Len(player_games)
            /\ IF den = 0 THEN result.ts_pct = 0
               ELSE NearestTenth(result.ts_pct, 100000 * pts, den)
            /\ IF fga = 0 THEN result.efg_pct = 0
               ELSE NearestTenth(result.efg_pct, 1000 * (2 * fgm + fg3m), 2 * fga)

C9_Witness ==
    /\ EfficiencyCalled
    /\ Column(player_games, "points") = <<30>>
    /\ "ft_attempted" \in Columns(player_games)
    /\ result = [ts_pct |-> 689, efg_pct |-> 650, games |-> 1]

GameEfficiencyCalled == call.fn = "game_efficiency"

(* C10: per row, ts_pct is 0.0 whenever the row's fg_attempted + 0.44 *    *)
(* ft_attempted is 0 and efg_pct is 0.0 whenever its fg_attempted is 0,    *)
(* whatever its points and made shots; otherwise they are the TS% and eFG% *)
(* formulas applied to the row (rounded to one decimal).                   *)
C10_RowZeroDenominator ==
    GameEfficiencyCalled =>
        \A i \in 1..Len(player_games) :
            LET g   == player_games[i]
                fta == IF "ft_attempted" \in DOMAIN g THEN g.ft_attempted ELSE 0
                den == 2 * (100 * g.fg_attempted + 44 * fta)
            IN  /\ IF den = 0 THEN result[i].ts_pct = 0
                   ELSE NearestTenth(result[i].ts_pct, 100000 * g.points, den)
                /\ IF g.fg_attempted = 0 THEN result[i].efg_pct = 0
                   ELSE NearestTenth(result[i].efg_pct,
                                     1000 * (2 * g.fg_made + g.fg3_made),
                                     2 * g.fg_attempted)

----------------------------------------------------------------------------
(* Shot tables (get_team_shots, get_league_shots): one row per shot.       *)
(* player_games holds whichever table the caller passes; the shot          *)
(* aggregators receive it as team_shots or league_shots.  pps is kept in   *)
(* thousandths, fg_pct and the usage percentages in tenths, ppg in         *)
(* hundredths.                                                             *)

PlayerNames == [p \in {1, 2} |-> IF p = 1 THEN "Coby White" ELSE "Josh Giddey"]

(* one row of get_league_shots *)
ShotRow(player, game, team, zone, made, type) ==
    [player_id |-> player, player_name |-> PlayerNames[player],
     game_id |-> game, team_abbr |-> team,
     shot_zone |-> zone, shot_made |-> made, shot_type |-> type]

(* df[mask]: the rows whose index is in keep, in their order *)
RECURSIVE Filter(_, _)
Filter(t, keep) ==
    IF t = <<>> THEN <<>>
    ELSE LET rest == Filter(SubSeq(t, 1, Len(t) - 1), keep)
         IN  IF Len(t) \in keep THEN Append(rest, t[Len(t)]) ELSE rest

(* shots[shots['shot_zone'] != 'Backcourt'] *)
NotBackcourt(t) ==
    Filter(t, {i \in 1..Len(t) : t[i].shot_zone /= "Backcourt"})

(* the zone's mask left out *)
WholeTable(t, zone) == t

(* shots[shots['shot_zone'] == zone] *)
InZone(t, zone) == Filter(t, {i \in 1..Len(t) : t[i].shot_zone = zone})

ZonesOf(t) == {t[i].shot_zone : i \in 1..Len(t)}

ShotPointsFlat(row) == IF row.shot_made THEN 2 ELSE 0

(* 3 for a made 3PT, 2 for any other made shot, 0 for a miss *)
ShotPoints(row) ==
    IF row.shot_made /\ row.shot_type = "3PT" THEN 3
    ELSE IF row.shot_made THEN 2 ELSE 0

PointsOf(t) == SumSeq([i \in 1..Len(t) |-> ShotPoints(t[i])])

MadeShots(t) == Cardinality({i \in 1..Len(t) : t[i].shot_made})

calc_stats(shots_df) ==
    LET total_shots == Len(shots_df)
    IN  IF total_shots = 0
        THEN [pps |-> 0, total_points |-> 0, total_shots |-> 0, fg_pct |-> 0]
        ELSE [pps          |-> RoundDiv(1000 * PointsOf(shots_df), total_shots),
              total_points |-> PointsOf(shots_df),
              total_shots  |-> total_shots,
              fg_pct       |-> RoundDiv(1000 * MadeShots(shots_df), total_shots)]

----------------------------------------------------------------------------
(* points_per_shot *)

PpsRequired(by_zone) ==
    {"shot_made", "shot_type"} \cup (IF by_zone THEN {"shot_zone"} ELSE {})

points_per_shot(team_shots, by_zone, exclude_backcourt) ==
    IF Empty(team_shots) THEN EmptyDict
    ELSE IF ~(PpsRequired(by_zone) \subseteq Columns(team_shots)) THEN EmptyDict
    ELSE LET shots_data ==
                 IF exclude_backcourt /\ "shot_zone" \in Columns(team_shots)
                 THEN NotBackcourt(team_shots) ELSE team_shots
             overall == calc_stats(shots_data)
         IN  IF ~by_zone THEN overall
             ELSE [overall |-> overall,
                   by_zone |-> [zone \in ZonesOf(shots_data) |->
                                   calc_stats(InZone(shots_data, zone))]]

PointsPerShot(by_zone, exclude_backcourt) ==
    /\ call' = [fn |-> "points_per_shot", by_zone |-> by_zone,
                exclude_backcourt |-> exclude_backcourt]
    /\ result' = points_per_shot(player_games, by_zone, exclude_backcourt)
    /\ UNCHANGED <<player_games, api>>

MaxPpsShots == 3

(* a made two, a made three, a missed two, a made and a missed heave from  *)
(* the backcourt                                                           *)
PpsRows ==
    { ShotRow(1, "G1", "CHI", "Restricted Area", TRUE, "2PT"),
      ShotRow(1, "G1", "CHI", "Above the Break 3", TRUE, "3PT"),
      ShotRow(2, "G1", "CHI", "Mid-Range", FALSE, "2PT"),
      ShotRow(2, "G1", "CHI", "Backcourt", TRUE, "3PT"),
      ShotRow(1, "G1", "CHI", "Backcourt", FALSE, "3PT") }

PpsTables ==
    LET full == SeqsUpTo(PpsRows, MaxPpsShots)
    IN  full \cup {WithoutColumn(t, "shot_zone") : t \in full}

InitPps ==
    /\ player_games \in PpsTables
    /\ call = NoCall
    /\ result = EmptyDict
    /\ api = NoApi

NextPps ==
    \E by_zone \in BOOLEAN, exclude_backcourt \in BOOLEAN :
        PointsPerShot(by_zone, exclude_backcourt)

SpecPps == InitPps /\ [][NextPps]_vars

PointsPerShotCalled == call.fn = "points_per_shot"

(* the shots points_per_shot considers: all of them, less the Backcourt    *)
(* ones unless exclude_backcourt is false                                  *)
Considered(t, exclude_backcourt) ==
    {i \in 1..Len(t) :
        ~(exclude_backcourt /\ "shot_zone" \in DOMAIN t[i]
            /\ t[i].shot_zone = "Backcourt")}

(* C11: points_per_shot on a table with the required columns reports, as   *)
(* its overall statistics, total_shots = the number of considered shots,   *)
(* total_points = 3 x made '3PT' shots + 2 x other made shots, and, when   *)
(* any shot is considered, pps = total_points / total_shots to the nearest *)
(* thousandth; Backcourt shots count only when exclude_backcourt is false. *)
C11_PointsPerShot ==
    (PointsPerShotCalled /\ result /= EmptyDict) =>
        LET stats  == IF call.by_zone THEN result.overall ELSE result
            shots  == Considered(player_games, call.exclude_backcourt)
            threes == {i \in shots : player_games[i].shot_made
                                     /\ player_games[i].shot_type = "3PT"}
            twos   == {i \in shots : player_games[i].shot_made
                                     /\ player_games[i].shot_type /= "3PT"}
            points == 3 * Cardinality(threes) + 2 * Cardinality(twos)
            n      == Cardinality(shots)
            off    == 1000 * points - stats.pps * n
        IN  /\ stats.total_shots = n
            /\ stats.total_points = points
            /\ n > 0 => (2 * off <= n /\ -n <= 2 * off)

(* made 2PT, made 3PT, missed 2PT: 5 points on 3 shots, pps 1.667; and a   *)
(* Backcourt make left out of a call that excludes the backcourt           *)
C11_Witness ==
    \/ /\ PointsPerShotCalled /\ ~call.by_zone
       /\ Len(player_games) = 3
       /\ [i \in 1..3 |-> <<player_games[i].shot_made, player_games[i].shot_type>>]
              = << <<TRUE, "2PT">>, <<TRUE, "3PT">>, <<FALSE, "2PT">> >>
       /\ result.total_points = 5 /\ result.total_shots = 3 /\ result.pps = 1667
    \/ /\ PointsPerShotCalled /\ call.exclude_backcourt /\ result /= EmptyDict
       /\ \E i \in 1..Len(player_games) :
              /\ "shot_zone" \in DOMAIN player_games[i]
              /\ player_games[i].shot_zone = "Backcourt"
              /\ player_games[i].shot_made

----------------------------------------------------------------------------
(* zone_leaders *)

LeadersRequired ==
    {"player_id", "player_name", "shot_zone", "shot_made", "shot_type", "game_id"}

(* one group of groupby(['player_id', 'player_name', 'shot_zone']); a      *)
(* player_id has one player_name in these tables, so the id keys the group *)
Group(t, player, zone) ==
    Filter(t, {i \in 1..Len(t) : t[i].player_id = player /\ t[i].shot_zone = zone})

PlayersOf(t) == {t[i].player_id : i \in 1..Len(t)}

ShotCountAsGames(group) == Len(group)

(* group['game_id'].nunique() *)
UniqueGames(group) == Cardinality({group[i].game_id : i \in 1..Len(group)})

(* the rows appended to player_zone_stats for a zone, keyed by player *)
Qualified(t, zone, min_shots) ==
    {p \in PlayersOf(t) :
        /\ Len(Group(t, p, zone)) > 0
        /\ ~(Len(Group(t, p, zone)) < min_shots)
        /\ UniqueGames(Group(t, p, zone)) /= 0}

(* ppg of x is below ppg of y, both total_points / unique_games *)
PpgLess(x, y) ==
    PointsOf(x) * UniqueGames(y) < PointsOf(y) * UniqueGames(x)

(* the last row holding the maximum *)
IdxMaxLast(t, zone, min_shots) ==
    CHOOSE p \in Qualified(t, zone, min_shots) :
        \A q \in Qualified(t, zone, min_shots) :
            \/ PpgLess(Group(t, q, zone), Group(t, p, zone))
            \/ (~PpgLess(Group(t, p, zone), Group(t, q, zone)) /\ p >= q)

(* zone_stats['ppg'].idxmax(): the first row holding the maximum, rows in  *)
(* groupby's sorted key order                                              *)
IdxMax(t, zone, min_shots) ==
    CHOOSE p \in Qualified(t, zone, min_shots) :
        \A q \in Qualified(t, zone, min_shots) :
            \/ PpgLess(Group(t, q, zone), Group(t, p, zone))
            \/ (~PpgLess(Group(t, p, zone), Group(t, q, zone)) /\ p <= q)

zone_leaders(team_shots, min_shots, exclude_backcourt) ==
    IF Empty(team_shots) THEN EmptyDict
    ELSE IF ~(LeadersRequired \subseteq Columns(team_shots)) THEN EmptyDict
    ELSE LET shots == IF exclude_backcourt THEN NotBackcourt(team_shots)
                      ELSE team_shots
             zones == {z \in ZonesOf(shots) : Qualified(shots, z, min_shots) /= {}}
         IN  IF zones = {} THEN EmptyDict
             ELSE [zone \in zones |->
                      LET leader == IdxMax(shots, zone, min_shots)
                          group  == Group(shots, leader, zone)
                      IN  [player_id    |-> leader,
                           player_name  |-> group[1].player_name,
                           ppg          |-> RoundDiv(100 * PointsOf(group),
                                                     UniqueGames(group)),
                           total_points |-> PointsOf(group),
                           total_shots  |-> Len(group),
                           games        |-> UniqueGames(group)]]

(* team_shots = team_shots.copy(); team_shots['points'] = ... *)
WithPoints(shots) ==
    [i \in 1..Len(shots) |-> [points |-> ShotPoints(shots[i])] @@ shots[i]]

ZoneLeaders(min_shots, exclude_backcourt) ==
    LET df == IF LeadersRequired \subseteq Columns(player_games)
              THEN WithPoints(IF exclude_backcourt THEN NotBackcourt(player_games)
                              ELSE player_games)
              ELSE player_games
    IN  /\ call' = [fn |-> "zone_leaders", min_shots |-> min_shots,
                    exclude_backcourt |-> exclude_backcourt]
        /\ result' = zone_leaders(player_games, min_shots, exclude_backcourt)
        /\ player_games' = CallerAfterAssign(player_games, df)
        /\ UNCHANGED api

MaxLeaderShots == 4

(* player 1 scores at the rim in two different games and misses once;      *)
(* player 2 scores at the rim and from the corner in one game; a made      *)
(* heave from the backcourt                                                *)
LeaderRows ==
    { ShotRow(1, "G1", "CHI", "Restricted Area", TRUE, "2PT"),
      ShotRow(1, "G2", "CHI", "Restricted Area", TRUE, "2PT"),
      ShotRow(1, "G2", "CHI", "Restricted Area", FALSE, "2PT"),
      ShotRow(2, "G1", "CHI", "Restricted Area", TRUE, "2PT"),
      ShotRow(2, "G1", "CHI", "Left Corner 3", TRUE, "3PT"),
      ShotRow(1, "G2", "CHI", "Backcourt", TRUE, "3PT") }

MinShotsChoices == {1, 2}

InitLeaders ==
    /\ player_games \in SeqsUpTo(LeaderRows, MaxLeaderShots)
    /\ call = NoCall
    /\ result = EmptyDict
    /\ api = NoApi

NextLeaders ==
    \E min_shots \in MinShotsChoices, exclude_backcourt \in BOOLEAN :
        ZoneLeaders(min_shots, exclude_backcourt)

SpecLeaders == InitLeaders /\ [][NextLeaders]_vars

ZoneLeadersCalled == call.fn = "zone_leaders"

(* the caller's rows for a player in a zone, and what they are worth *)
ZoneShots(p, z) ==
    {i \in 1..Len(player_games) :
        player_games[i].player_id = p /\ player_games[i].shot_zone = z}

ZonePoints(p, z) ==
    3 * Cardinality({i \in ZoneShots(p, z) : player_games[i].shot_made
                                            /\ player_games[i].shot_type = "3PT"})
    + 2 * Cardinality({i \in ZoneShots(p, z) : player_games[i].shot_made
                                              /\ player_games[i].shot_type /= "3PT"})

ZoneGames(p, z) == Cardinality({player_games[i].game_id : i \in ZoneShots(p, z)})

Reaches(p, z) == Cardinality(ZoneShots(p, z)) >= call.min_shots

(* C12: every zone of zone_leaders' result names a player with at least    *)
(* min_shots shots there whose points per distinct game in the zone is at  *)
(* least that of every other such player; the zones of the result are      *)
(* exactly those where some player reaches min_shots, less Backcourt       *)
(* unless exclude_backcourt is false.                                      *)
C12_ZoneLeaders ==
    ZoneLeadersCalled =>
        LET players == PlayersOf(player_games)
            reached == {z \in ZonesOf(player_games) :
                           /\ \E p \in players : Reaches(p, z)
                           /\ ~(call.exclude_backcourt /\ z = "Backcourt")}
            zones   == IF result = EmptyDict THEN {} ELSE DOMAIN result
        IN  /\ zones = reached
            /\ \A z \in zones :
                   LET leader == result[z].player_id
                   IN  /\ leader \in players /\ Reaches(leader, z)
                       /\ \A q \in players :
                              Reaches(q, z) =>
                                  ZonePoints(q, z) * ZoneGames(leader, z)
                                      <= ZonePoints(leader, z) * ZoneGames(q, z)

(* two players reach min_shots = 2 at the rim with 4 points each; player 2 *)
(* scored them in one game, player 1 in two, and player 2 leads            *)
C12_Witness ==
    /\ ZoneLeadersCalled /\ call.min_shots = 2
    /\ Reaches(1, "Restricted Area") /\ Reaches(2, "Restricted Area")
    /\ ZonePoints(1, "Restricted Area") = ZonePoints(2, "Restricted Area")
    /\ ZoneGames(1, "Restricted Area") = 2
    /\ result /= EmptyDict
    /\ result["Restricted Area"].player_id = 2
    /\ result["Restricted Area"].ppg = 400

----------------------------------------------------------------------------
(* league_pps_by_zone *)

LeagueRequired == {"shot_made", "shot_type", "shot_zone"}

(* position of a zone in shots['shot_zone'].unique(): its first row *)
FirstRow(t, zone) ==
    CHOOSE i \in 1..Len(t) :
        /\ t[i].shot_zone = zone
        /\ \A j \in 1..(i - 1) : t[j].shot_zone /= zone

ZoneRankAscending(t, zone) ==
    LET pps(z) == calc_stats(InZone(t, z)).pps
    IN  1 + Cardinality({z \in ZonesOf(t) :
                \/ pps(z) < pps(zone)
                \/ (pps(z) = pps(zone) /\ FirstRow(t, z) < FirstRow(t, zone))})

(* enumerate(sorted(zone_stats.items(), key=pps, reverse=True), 1): the    *)
(* sort is stable, so zones of equal pps keep their insertion order        *)
ZoneRank(t, zone) ==
    LET pps(z) == calc_stats(InZone(t, z)).pps
    IN  1 + Cardinality({z \in ZonesOf(t) :
                \/ pps(z) > pps(zone)
                \/ (pps(z) = pps(zone) /\ FirstRow(t, z) < FirstRow(t, zone))})

InTeam(t, team) == Filter(t, {i \in 1..Len(t) : t[i].team_abbr = team})

TeamsOf(t) == {t[i].team_abbr : i \in 1..Len(t)}

league_pps_by_zone(league_shots, exclude_backcourt) ==
    IF Empty(league_shots) THEN EmptyDict
    ELSE IF ~(LeagueRequired \subseteq Columns(league_shots)) THEN EmptyDict
    ELSE LET shots == IF exclude_backcourt THEN NotBackcourt(league_shots)
                      ELSE league_shots
             total_league_shots == Len(shots)
             zone_stats ==
                 [zone \in ZonesOf(shots) |->
                     [pct_of_shots |-> RoundDiv(1000 * Len(InZone(shots, zone)),
                                                total_league_shots),
                      rank         |-> ZoneRank(shots, zone)]
                         @@ calc_stats(InZone(shots, zone))]
             team_stats ==
                 IF "team_abbr" \in Columns(league_shots)
                 THEN [team_abbr \in TeamsOf(shots) |->
                          LET team_shots == InTeam(shots, team_abbr)
                          IN  [overall |-> calc_stats(team_shots),
                               by_zone |-> [zone \in ZonesOf(team_shots) |->
                                               calc_stats(InZone(team_shots, zone))]]]
                 ELSE EmptyDict
         IN  [league_overall |-> calc_stats(shots),
              by_zone        |-> zone_stats,
              by_team        |-> team_stats]

LeaguePpsByZone(exclude_backcourt) ==
    /\ call' = [fn |-> "league_pps_by_zone",
                exclude_backcourt |-> exclude_backcourt]
    /\ result' = league_pps_by_zone(player_games, exclude_backcourt)
    /\ UNCHANGED <<player_games, api>>

MaxLeagueShots == 3

(* makes and misses at the rim, a made mid-range two, a made and a missed  *)
(* three, a missed heave, by two teams                                     *)
LeagueRows ==
    { ShotRow(1, "G1", "CHI", "Restricted Area", TRUE, "2PT"),
      ShotRow(1, "G1", "CHI", "Restricted Area", FALSE, "2PT"),
      ShotRow(2, "G1", "BOS", "Mid-Range", TRUE, "2PT"),
      ShotRow(1, "G1", "CHI", "Above the Break 3", TRUE, "3PT"),
      ShotRow(2, "G1", "BOS", "Above the Break 3", FALSE, "3PT"),
      ShotRow(2, "G1", "BOS", "Backcourt", FALSE, "3PT") }

LeagueTables ==
    LET full == SeqsUpTo(LeagueRows, MaxLeagueShots)
    IN  full \cup {WithoutColumn(t, "team_abbr") : t \in full}

InitLeague ==
    /\ player_games \in LeagueTables
    /\ call = NoCall
    /\ result = EmptyDict
    /\ api = NoApi

NextLeague == \E exclude_backcourt \in BOOLEAN : LeaguePpsByZone(exclude_backcourt)

SpecLeague == InitLeague /\ [][NextLeague]_vars

LeagueCalled == call.fn = "league_pps_by_zone"

(* C13: the ranks league_pps_by_zone gives the k zones of by_zone are      *)
(* exactly 1..k, each once, and a zone with a strictly higher pps has a    *)
(* strictly smaller rank.                                                  *)
C13_ZoneRanks ==
    (LeagueCalled /\ result /= EmptyDict) =>
        LET by_zone == result.by_zone
            zones   == DOMAIN by_zone
        IN  /\ {by_zone[z].rank : z \in zones} = 1..Cardinality(zones)
            /\ \A y, z \in zones :
                   /\ by_zone[y].rank = by_zone[z].rank => y = z
                   /\ by_zone[y].pps > by_zone[z].pps
                          => by_zone[y].rank < by_zone[z].rank

(* three zones, two of them with different pps, ranked 1, 2, 3 *)
C13_Witness ==
    /\ LeagueCalled /\ result /= EmptyDict
    /\ Cardinality(DOMAIN result.by_zone) = 3
    /\ \E y, z \in DOMAIN result.by_zone :
           /\ result.by_zone[y].pps > result.by_zone[z].pps
           /\ result.by_zone[y].rank = 1
           /\ result.by_zone[z].rank = 3

----------------------------------------------------------------------------
(* high_value_zone_usage *)

UsageRequired == {"shot_zone", "team_abbr"}

RestrictedAreaOnly == {"Restricted Area"}

DefaultHighValueZones ==
    {"Restricted Area", "Right Corner 3", "Left Corner 3", "Above the Break 3"}

three_point_zones == {"Right Corner 3", "Left Corner 3", "Above the Break 3"}

HighValueOrDefault(high_value_zones) ==
    IF high_value_zones.given THEN high_value_zones.values
    ELSE DefaultHighValueZones

(* len(team_shots[team_shots['shot_zone'].isin(zones)]) *)
CountIn(team_shots, zones) ==
    Cardinality({i \in 1..Len(team_shots) : team_shots[i].shot_zone \in zones})

(* len(team_shots[~team_shots['shot_zone'].isin(zones)]) *)
CountNotIn(team_shots, zones) ==
    Cardinality({i \in 1..Len(team_shots) : team_shots[i].shot_zone \notin zones})

(* round(count / total_shots * 100, 1), in tenths *)
UsagePct(count, total_shots) == RoundDiv(1000 * count, total_shots)

TeamUsage(shots_data, team_abbr, high_value_zones) ==
    LET team_shots  == InTeam(shots_data, team_abbr)
        total_shots == Len(team_shots)
    IN  [team_abbr           |-> team_abbr,
         high_value_pct      |-> UsagePct(CountIn(team_shots, high_value_zones),
                                          total_shots),
         restricted_area_pct |-> UsagePct(CountIn(team_shots, {"Restricted Area"}),
                                          total_shots),
         three_point_pct     |-> UsagePct(CountIn(team_shots, three_point_zones),
                                          total_shots),
         low_value_pct       |-> UsagePct(CountNotIn(team_shots, high_value_zones),
                                          total_shots),
         total_shots         |-> total_shots]

(* position of a team in shots_data['team_abbr'].unique(): its first row *)
FirstTeamRow(t, team) ==
    CHOOSE i \in 1..Len(t) :
        /\ t[i].team_abbr = team
        /\ \A j \in 1..(i - 1) : t[j].team_abbr /= team

UsagePositionAscending(shots_data, team, high_value_zones) ==
    LET pct(a) == TeamUsage(shots_data, a, high_value_zones).high_value_pct
    IN  1 + Cardinality({a \in TeamsOf(shots_data) :
                \/ pct(a) < pct(team)
                \/ (pct(a) = pct(team)
                      /\ FirstTeamRow(shots_data, a) < FirstTeamRow(shots_data, team))})

(* row number, from 1, of a team after                                     *)
(* sort_values('high_value_pct', ascending=False); teams of equal          *)
(* high_value_pct stay in the order team_stats listed them                 *)
UsagePosition(shots_data, team, high_value_zones) ==
    LET pct(a) == TeamUsage(shots_data, a, high_value_zones).high_value_pct
    IN  1 + Cardinality({a \in TeamsOf(shots_data) :
                \/ pct(a) > pct(team)
                \/ (pct(a) = pct(team)
                      /\ FirstTeamRow(shots_data, a) < FirstTeamRow(shots_data, team))})

high_value_zone_usage(league_shots, high_value_zones, exclude_backcourt) ==
    IF Empty(league_shots) THEN <<>>
    ELSE IF ~(UsageRequired \subseteq Columns(league_shots)) THEN <<>>
    ELSE LET shots_data == IF exclude_backcourt THEN NotBackcourt(league_shots)
                           ELSE league_shots
             zones == HighValueOrDefault(high_value_zones)
             teams == TeamsOf(shots_data)
         IN  [k \in 1..Cardinality(teams) |->
                 LET team == CHOOSE a \in teams :
                                 UsagePosition(shots_data, a, zones) = k
                 IN  [rank |-> k] @@ TeamUsage(shots_data, team, zones)]

HighValueZoneUsage(high_value_zones, exclude_backcourt) ==
    /\ call' = [fn |-> "high_value_zone_usage",
                high_value_zones |-> high_value_zones,
                exclude_backcourt |-> exclude_backcourt]
    /\ result' = high_value_zone_usage(player_games, high_value_zones,
                                       exclude_backcourt)
    /\ UNCHANGED <<player_games, api>>

MaxUsageShots == 4

(* shots by two teams from the rim, the corner, mid-range, the paint       *)
(* outside the restricted area, and the backcourt                          *)
UsageRows ==
    { ShotRow(1, "G1", "CHI", "Restricted Area", TRUE, "2PT"),
      ShotRow(1, "G1", "CHI", "Mid-Range", FALSE, "2PT"),
      ShotRow(1, "G1", "CHI", "Backcourt", FALSE, "3PT"),
      ShotRow(2, "G1", "BOS", "Left Corner 3", TRUE, "3PT"),
      ShotRow(2, "G1", "BOS", "In The Paint (Non-RA)", TRUE, "2PT"),
      ShotRow(2, "G1", "BOS", "Restricted Area", FALSE, "2PT") }

HighValueChoices == {None, Given({"Restricted Area"})}

InitUsage ==
    /\ player_games \in SeqsUpTo(UsageRows, MaxUsageShots)
    /\ call = NoCall
    /\ result = EmptyDict
    /\ api = NoApi

NextUsage ==
    \E high_value_zones \in HighValueChoices, exclude_backcourt \in BOOLEAN :
        HighValueZoneUsage(high_value_zones, exclude_backcourt)

SpecUsage == InitUsage /\ [][NextUsage]_vars

UsageCalled == call.fn = "high_value_zone_usage"

(* a team's shots in the caller's table that the call considers *)
TeamConsidered(team) ==
    {i \in 1..Len(player_games) :
        /\ player_games[i].team_abbr = team
        /\ ~(call.exclude_backcourt /\ player_games[i].shot_zone = "Backcourt")}

TeamShotsFrom(team, zones) ==
    {i \in TeamConsidered(team) : player_games[i].shot_zone \in zones}

HighValueSet ==
    IF call.high_value_zones.given THEN call.high_value_zones.values
    ELSE {"Restricted Area", "Right Corner 3", "Left Corner 3", "Above the Break 3"}

UsageRowsOf(team) == {k \in 1..Len(result) : result[k].team_abbr = team}

(* C14 (as amended): for every team with a considered shot,                *)
(* high_value_zone_usage reports high_value_pct = 100 x (the team's        *)
(* considered shots from the high-value set) / (the team's considered      *)
(* shots), rounded to one decimal; Backcourt shots are not considered by   *)
(* default.                                                                *)
C14_HighValuePct ==
    UsageCalled =>
        \A team \in TeamsOf(player_games) :
            TeamConsidered(team) /= {} =>
                \E k \in UsageRowsOf(team) :
                    NearestTenth(result[k].high_value_pct,
                                 1000 * Cardinality(TeamShotsFrom(team, HighValueSet)),
                                 Cardinality(TeamConsidered(team)))

(* a team with 2 of its 4 shots from the default high-value zones gets     *)
(* 50.0; a team with 1 of 3 gets 33.3                                      *)
C14_Witness ==
    /\ UsageCalled /\ ~call.high_value_zones.given
    /\ \E k \in 1..Len(result) :
           LET team == result[k].team_abbr
           IN  \/ /\ Cardinality(TeamConsidered(team)) = 4
                  /\ Cardinality(TeamShotsFrom(team, HighValueSet)) = 2
                  /\ result[k].high_value_pct = 500
               \/ /\ Cardinality(TeamConsidered(team)) = 3
                  /\ Cardinality(TeamShotsFrom(team, HighValueSet)) = 1
                  /\ result[k].high_value_pct = 333

(* C14 (as stated): every team of the input is reported with               *)
(* high_value_pct exactly 100 x high-value shots / considered shots.       *)
C14_ExactPct ==
    UsageCalled =>
        \A team \in TeamsOf(player_games) :
            \E k \in UsageRowsOf(team) :
                result[k].high_value_pct * Cardinality(TeamConsidered(team))
                    = 1000 * Cardinality(TeamShotsFrom(team, HighValueSet))

(* C15: low_value_pct is the share of the team's considered shots taken    *)
(* from Mid-Range and In The Paint (Non-RA) only.                          *)
C15_LowValueOnly ==
    UsageCalled =>
        \A k \in 1..Len(result) :
            LET team == result[k].team_abbr
                low  == TeamShotsFrom(team, {"Mid-Range", "In The Paint (Non-RA)"})
            IN  NearestTenth(result[k].low_value_pct, 1000 * Cardinality(low),
                             Cardinality(TeamConsidered(team)))

(* C16: high_value_zone_usage returns one row for each team with a         *)
(* considered shot and no other row, in non-increasing order of            *)
(* high_value_pct, with rank equal to the row's position from 1.           *)
C16_UsageRows ==
    UsageCalled =>
        LET teams == {a \in TeamsOf(player_games) : TeamConsidered(a) /= {}}
        IN  /\ Len(result) = Cardinality(teams)
            /\ {result[k].team_abbr : k \in 1..Len(result)} = teams
            /\ \A k \in 1..Len(result) : result[k].rank = k
            /\ \A j, k \in 1..Len(result) :
                   j < k => result[j].high_value_pct >= result[k].high_value_pct

(* two teams with different high-value usage; the team listed second in    *)
(* the input comes first in the result                                     *)
C16_Witness ==
    /\ UsageCalled /\ Len(result) = 2
    /\ result[1].high_value_pct > result[2].high_value_pct
    /\ result[1].team_abbr /= player_games[1].team_abbr
    /\ result[1].rank = 1 /\ result[2].rank = 2

RowOrders(n) ==
    {f \in [1..n -> 1..n] : \A i, j \in 1..n : f[i] = f[j] => i = j}

Permuted(t, f) == [i \in 1..Len(t) |-> t[f[i]]]

----------------------------------------------------------------------------
(* top_performers *)

(* row.get(key, default) *)
Get(row, key, default) == IF key \in DOMAIN row THEN row[key] ELSE default

(* one row of get_box_score *)
BoxRow(id, first, family, pts, reb, ast, stl, blk, fgm, fga) ==
    [personId |-> id, name |-> <<first, " ", family>>, firstName |-> first,
     familyName |-> family, points |-> pts, reboundsTotal |-> reb,
     assists |-> ast, steals |-> stl, blocks |-> blk,
     fieldGoalsMade |-> fgm, fieldGoalsAttempted |-> fga]

Performer(row) ==
    [player_id    |-> Get(row, "personId", 0),
     name         |-> Get(row, "name", "Unknown"),
     first_name   |-> Get(row, "firstName", ""),
     last_name    |-> Get(row, "familyName", ""),
     points       |-> Get(row, "points", 0),
     rebounds     |-> Get(row, "reboundsTotal", 0),
     assists      |-> Get(row, "assists", 0),
     steals       |-> Get(row, "steals", 0),
     blocks       |-> Get(row, "blocks", 0),
     fg_made      |-> Get(row, "fieldGoalsMade", 0),
     fg_attempted |-> Get(row, "fieldGoalsAttempted", 0)]

KeyAbovePointsOnly(x, y) == x.points > y.points

(* x sorts before y under key (points, assists, rebounds), reverse=True *)
KeyAbove(x, y) ==
    \/ x.points > y.points
    \/ x.points = y.points /\ x.assists > y.assists
    \/ x.points = y.points /\ x.assists = y.assists /\ x.rebounds > y.rebounds

(* place of row i after the stable sort *)
PerformerPlace(ps, i) ==
    1 + Cardinality({j \in 1..Len(ps) :
            \/ KeyAbove(ps[j], ps[i])
            \/ (~KeyAbove(ps[i], ps[j]) /\ j < i)})

top_performers(box_score) ==
    IF Empty(box_score) THEN <<>>
    ELSE LET performers == [i \in 1..Len(box_score) |-> Performer(box_score[i])]
         IN  [k \in 1..Len(performers) |->
                 performers[CHOOSE i \in 1..Len(performers) :
                                PerformerPlace(performers, i) = k]]

TopPerformers ==
    /\ call' = [fn |-> "top_performers"]
    /\ result' = top_performers(player_games)
    /\ UNCHANGED <<player_games, api>>

----------------------------------------------------------------------------
(* Every aggregator on every kind of table: game logs, shot tables, box    *)
(* scores, and tables that lack a column.                                  *)

MaxAggregatorRows == 2

AggregatorPlayerRows ==
    { PlayerRow(30, 5, 3, 1, 0, 12, 20, 2, 6, 4),
      PlayerRow(2, 1, 0, 0, 0, 0, 0, 0, 0, 2) }

AggregatorShotRows ==
    { ShotRow(1, "G1", "CHI", "Restricted Area", TRUE, "2PT"),
      ShotRow(2, "G1", "BOS", "Backcourt", TRUE, "3PT") }

AggregatorBoxRows ==
    { BoxRow(1, "Coby", "White", 20, 4, 5, 1, 0, 8, 15),
      BoxRow(2, "Josh", "Giddey", 20, 6, 7, 2, 1, 6, 12) }

AggregatorTables ==
    LET games == SeqsUpTo(AggregatorPlayerRows, MaxAggregatorRows)
        shots == SeqsUpTo(AggregatorShotRows, MaxAggregatorRows)
        boxes == SeqsUpTo(AggregatorBoxRows, MaxAggregatorRows)
    IN  games \cup shots \cup boxes
          \cup {WithoutColumn(t, "fg3_made") : t \in games}
          \cup {WithoutColumn(t, "shot_type") : t \in shots}

InitAggregators ==
    /\ player_games \in AggregatorTables
    /\ call = NoCall
    /\ result = EmptyDict
    /\ api = NoApi

NextAggregators ==
    \/ SeasonAverages
    \/ ScoringTrend("points")
    \/ TopPerformers
    \/ EfficiencyMetrics
    \/ GameEfficiency
    \/ RollingAverages(None, None)
    \/ ConsistencyScore(None)
    \/ \E by_zone \in BOOLEAN, exclude_backcourt \in BOOLEAN :
           PointsPerShot(by_zone, exclude_backcourt)
    \/ \E exclude_backcourt \in BOOLEAN : ZoneLeaders(1, exclude_backcourt)
    \/ \E exclude_backcourt \in BOOLEAN : LeaguePpsByZone(exclude_backcourt)
    \/ \E exclude_backcourt \in BOOLEAN : HighValueZoneUsage(None, exclude_backcourt)

SpecAggregators == InitAggregators /\ [][NextAggregators]_vars

(* the columns a call cannot do without *)
RequiredColumns ==
    CASE call.fn = "season_averages" ->
             {"points", "rebounds", "assists", "steals", "blocks", "fg_pct", "fg3_pct"}
      [] call.fn = "scoring_trend" -> {call.metric}
      [] call.fn \in {"efficiency_metrics", "game_efficiency"} ->
             {"points", "fg_attempted", "fg_made", "fg3_made"}
      [] call.fn = "points_per_shot" ->
             {"shot_made", "shot_type"}
                 \cup (IF call.by_zone THEN {"shot_zone"} ELSE {})
      [] call.fn = "zone_leaders" ->
             {"player_id", "player_name", "shot_zone", "shot_made", "shot_type",
              "game_id"}
      [] call.fn = "league_pps_by_zone" -> {"shot_made", "shot_type", "shot_zone"}
      [] call.fn = "high_value_zone_usage" -> {"shot_zone", "team_abbr"}
      [] OTHER -> {}

(* C17: a non-empty table that lacks a column the aggregator requires      *)
(* yields an empty result, and no exception.                               *)
C17_MissingColumns ==
    (player_games /= <<>> /\ ~(RequiredColumns \subseteq Columns(player_games)))
        => result = <<>>

(* C18: every aggregator given an empty table returns an empty result      *)
(* (empty dict, empty list or empty table) without raising.                *)
C18_EmptyInput ==
    (call /= NoCall /\ player_games = <<>>) => result = <<>>

(* an aggregator other than the first one tried has been called on the     *)
(* empty table                                                             *)
C18_Witness ==
    /\ player_games = <<>>
    /\ call.fn \in {"game_efficiency", "rolling_averages", "top_performers",
                    "high_value_zone_usage"}
    /\ result = <<>>

----------------------------------------------------------------------------
(* Row order *)

(* C20: league_pps_by_zone returns the same league_overall, zone           *)
(* statistics and zone ranks for every order of the rows of its table.     *)
C20_OrderIndependent ==
    LeagueCalled =>
        \A f \in RowOrders(Len(player_games)) :
            LET other == league_pps_by_zone(Permuted(player_games, f),
                                            call.exclude_backcourt)
            IN  other = result

----------------------------------------------------------------------------
(* top_performers on box scores *)

MaxBoxRows == 3

(* three 20-point games, two of them also level on assists, and a 15-point *)
(* game                                                                    *)
BoxRows ==
    { BoxRow(1, "Coby", "White", 20, 4, 5, 1, 0, 8, 15),
      BoxRow(2, "Josh", "Giddey", 20, 6, 7, 2, 1, 6, 12),
      BoxRow(3, "Nikola", "Vucevic", 15, 7, 4, 1, 0, 4, 10),
      BoxRow(4, "Ayo", "Dosunmu", 20, 8, 5, 0, 1, 7, 14) }

BoxTables ==
    LET full == SeqsUpTo(BoxRows, MaxBoxRows)
    IN  full \cup {WithoutColumn(t, "assists") : t \in full}
             \cup {WithoutColumn(t, "reboundsTotal") : t \in full}

InitBox ==
    /\ player_games \in BoxTables
    /\ call = NoCall
    /\ result = EmptyDict
    /\ api = NoApi

NextBox == TopPerformers

SpecBox == InitBox /\ [][NextBox]_vars

TopPerformersCalled == call.fn = "top_performers"

(* a box-score stat of a row, 0 when the box score has no such column *)
BoxStat(row, column) == IF column \in DOMAIN row THEN row[column] ELSE 0

(* the record is the one made from the row *)
RecordOf(record, row) ==
    /\ record.player_id = BoxStat(row, "personId")
    /\ record.points = BoxStat(row, "points")
    /\ record.assists = BoxStat(row, "assists")
    /\ record.rebounds = BoxStat(row, "reboundsTotal")
    /\ record.steals = BoxStat(row, "steals")
    /\ record.blocks = BoxStat(row, "blocks")
    /\ record.fg_made = BoxStat(row, "fieldGoalsMade")
    /\ record.fg_attempted = BoxStat(row, "fieldGoalsAttempted")

(* C21: top_performers returns one record per box-score row, by points     *)
(* descending, equal points by assists descending, equal points and        *)
(* assists by rebounds descending; a stat whose column the box score lacks *)
(* is 0 in every record.                                                   *)
C21_TopPerformers ==
    TopPerformersCalled =>
        LET n == Len(player_games)
        IN  /\ Len(result) = n
            /\ \E f \in RowOrders(n) :
                   \A k \in 1..n : RecordOf(result[k], player_games[f[k]])
            /\ \A j, k \in 1..n :
                   j < k =>
                       \/ result[j].points > result[k].points
                       \/ /\ result[j].points = result[k].points
                          /\ result[j].assists > result[k].assists
                       \/ /\ result[j].points = result[k].points
                          /\ result[j].assists = result[k].assists
                          /\ result[j].rebounds >= result[k].rebounds

(* three rows level on points, listed in the opposite of their final       *)
(* order: assists, then rebounds, decide                                   *)
C21_Witness ==
    /\ TopPerformersCalled /\ Len(result) = 3
    /\ "assists" \in Columns(player_games)
    /\ "reboundsTotal" \in Columns(player_games)
    /\ [k \in 1..3 |-> result[k].player_id] = <<2, 4, 1>>
    /\ [k \in 1..3 |-> player_games[k].personId] = <<1, 4, 2>>

----------------------------------------------------------------------------
(* The fetch layer (src/bulls/data/fetch.py).  api is what the NBA stats   *)
(* API answers: api.games for LeagueGameFinder, api.box_scores[game_id]    *)
(* for BoxScoreTraditionalV3, api.shot_charts[team] for ShotChartDetail.   *)
(* An answer either raises an exception or returns data.                   *)

ApiRaises(error) == [outcome |-> "raises", error |-> error]

ApiReturns(data) == [outcome |-> "returns", data |-> data]

(* an exception that leaves the called function *)
Raises(error) == [raised |-> error]

(* an int argument that is given: last_n=n *)
GivenInt(n) == [given |-> TRUE, value |-> n]

(* Python truth of an Optional[int]: None and 0 are false *)
Truthy(last_n) == last_n.given /\ last_n.value /= 0

(* one row of LeagueGameFinder; GAME_DATE as a day number *)
GameRow(id, date) ==
    [GAME_ID |-> id, GAME_DATE |-> date, MATCHUP |-> "CHI vs. BOS", WL |-> "W"]

(* place of row i after games.sort_values('GAME_DATE', ascending=False) *)
SortedPlace(games, i) ==
    1 + Cardinality({j \in 1..Len(games) :
            \/ games[j].GAME_DATE > games[i].GAME_DATE
            \/ (games[j].GAME_DATE = games[i].GAME_DATE /\ j < i)})

SortByDate(games) ==
    [k \in 1..Len(games) |->
        games[CHOOSE i \in 1..Len(games) : SortedPlace(games, i) = k]]

(* games.head(n), n >= 0 *)
DataFrameHead(games, n) == SubSeq(games, 1, IF n < Len(games) THEN n ELSE Len(games))

get_games(last_n) ==
    IF api.games.outcome = "raises" THEN Raises(api.games.error)
    ELSE LET data_frames == api.games.data
         IN  IF data_frames = <<>> THEN <<>>
             ELSE IF Empty(data_frames[1]) THEN <<>>
             ELSE LET games == SortByDate(data_frames[1])
                  IN  IF Truthy(last_n) THEN DataFrameHead(games, last_n.value)
                      ELSE games

GetGames(last_n) ==
    /\ call' = [fn |-> "get_games", last_n |-> last_n]
    /\ result' = get_games(last_n)
    /\ UNCHANGED <<player_games, api>>

MaxSeasonGames == 3

SeasonGameIds == {"G1", "G2", "G3", "G4"}

GameDates == [id \in SeasonGameIds |->
                 CASE id = "G1" -> 1 [] id = "G2" -> 2 [] id = "G3" -> 3 [] id = "G4" -> 4]

(* the season so far, in whatever order the API lists it: one game a day *)
SeasonTables ==
    {[i \in 1..Len(ids) |-> GameRow(ids[i], GameDates[ids[i]])] :
        ids \in {s \in SeqsUpTo(SeasonGameIds, MaxSeasonGames) :
                    \A i, j \in 1..Len(s) : s[i] = s[j] => i = j}}

GamesAnswers ==
    {ApiRaises("RequestException"), ApiReturns(<<>>)}
        \cup {ApiReturns(<<t>>) : t \in SeasonTables}

LastNChoices == {None} \cup {GivenInt(n) : n \in 0..MaxSeasonGames}

InitGames ==
    /\ api \in [games : GamesAnswers, box_scores : {<<>>}, shot_charts : {<<>>}]
    /\ player_games = <<>>
    /\ call = NoCall
    /\ result = EmptyDict

NextGames == \E last_n \in LastNChoices : GetGames(last_n)

SpecGames == InitGames /\ [][NextGames]_vars

GetGamesCalled == call.fn = "get_games"

(* the season's games the API returned *)
SeasonGames == api.games.data[1]

(* C22: get_games returns the season's games from the most recent to the   *)
(* oldest; given last_n >= 0 it returns the min(last_n, total) most recent *)
(* games, and with no last_n all of them.                                  *)
C22_GetGames ==
    (GetGamesCalled /\ api.games.outcome = "returns" /\ api.games.data /= <<>>) =>
        LET total == Len(SeasonGames)
            kept  == IF ~call.last_n.given THEN total
                     ELSE IF call.last_n.value < total THEN call.last_n.value
                     ELSE total
        IN  /\ Len(result) = kept
            /\ \A j, k \in 1..Len(result) :
                   j < k => result[j].GAME_DATE > result[k].GAME_DATE
            /\ \A k \in 1..Len(result) :
                   /\ \E i \in 1..total : SeasonGames[i] = result[k]
                   /\ Cardinality({i \in 1..total :
                          SeasonGames[i].GAME_DATE > result[k].GAME_DATE}) = k - 1

----------------------------------------------------------------------------
(* get_box_score and get_player_games (src/bulls/data/fetch.py)             *)

BULLS_TEAM_ID == 1610612741

OPPONENT_TEAM_ID == 1610612738

(* one row of BoxScoreTraditionalV3.player_stats *)
BoxPlayer(team, id, first, family, pts, fgm, fga, fg3m, fg3a, ftm, fta) ==
    [teamId |-> team, personId |-> id, firstName |-> first,
     familyName |-> family, points |-> pts, reboundsTotal |-> 4,
     assists |-> 5, steals |-> 1, blocks |-> 0,
     fieldGoalsMade |-> fgm, fieldGoalsAttempted |-> fga,
     threePointersMade |-> fg3m, threePointersAttempted |-> fg3a,
     freeThrowsMade |-> ftm, freeThrowsAttempted |-> fta,
     turnovers |-> 2, minutes |-> "31:20"]

(* players[players['teamId'] == BULLS_TEAM_ID] *)
BullsPlayers(players) ==
    Filter(players, {i \in DOMAIN players : players[i].teamId = BULLS_TEAM_ID})

(* bulls_players['name'] = firstName + ' ' + familyName *)
WithName(players) ==
    [i \in DOMAIN players |->
        [f \in DOMAIN players[i] \cup {"name"} |->
            IF f = "name"
            THEN <<players[i].firstName, " ", players[i].familyName>>
            ELSE players[i][f]]]

(* the exceptions get_box_score turns into an empty table *)
BoxScoreCaught ==
    {"AttributeError", "KeyError", "IndexError", "RequestException",
     "JSONDecodeError", "ValueError"}

BoxScoreRaises(game_id) ==
    /\ api.box_scores[game_id].outcome = "raises"
    /\ api.box_scores[game_id].error \notin BoxScoreCaught

get_box_score(game_id) ==
    LET answer == api.box_scores[game_id]
    IN  IF answer.outcome = "raises"
        THEN IF answer.error \in BoxScoreCaught THEN <<>>
             ELSE Raises(answer.error)
        ELSE LET players == answer.data
             IN  IF Empty(players) THEN <<>>
                 ELSE IF Empty(BullsPlayers(players)) THEN <<>>
                 ELSE WithName(BullsPlayers(players))

(* str.lower() on the words of the names in use *)
LowerWord(w) ==
    CASE w = "Coby" -> "coby"
      [] w = "White" -> "white"
      [] w = "Josh" -> "josh"
      [] w = "Giddey" -> "giddey"
      [] w = "Jayson" -> "jayson"
      [] w = "Tatum" -> "tatum"
      [] w = "Zach" -> "zach"
      [] w = "LaVine" -> "lavine"
      [] OTHER -> w

Lower(name) == [i \in DOMAIN name |-> LowerWord(name[i])]

(* box[box['name'].str.lower() == player_name.lower()] *)
PlayerRowsOf(box, player_name) ==
    Filter(box, {i \in DOMAIN box : Lower(box[i].name) = Lower(player_name)})

(* the dict appended to player_stats *)
StatLine(game, p) ==
    [game_id |-> game.GAME_ID, date |-> game.GAME_DATE,
     matchup |-> game.MATCHUP, result |-> game.WL,
     points |-> Get(p, "points", 0),
     rebounds |-> Get(p, "reboundsTotal", 0),
     assists |-> Get(p, "assists", 0),
     steals |-> Get(p, "steals", 0),
     blocks |-> Get(p, "blocks", 0),
     fg_made |-> Get(p, "fieldGoalsMade", 0),
     fg_attempted |-> Get(p, "fieldGoalsAttempted", 0),
     fg3_made |-> Get(p, "threePointersMade", 0),
     fg3_attempted |-> Get(p, "threePointersAttempted", 0),
     ft_made |-> Get(p, "freeThrowsMade", 0),
     ft_attempted |-> Get(p, "freeThrowsAttempted", 0),
     turnovers |-> Get(p, "turnovers", 0),
     minutes |-> Get(p, "minutes", "0")]

(* df['fg_pct'], df['fg3_pct'], df['ft_pct'] *)
WithPercentages(df) ==
    [i \in DOMAIN df |->
        df[i] @@ [fg_pct |-> Pct(df[i].fg_made, df[i].fg_attempted),
                  fg3_pct |-> Pct(df[i].fg3_made, df[i].fg3_attempted),
                  ft_pct |-> Pct(df[i].ft_made, df[i].ft_attempted)]]

(* the exceptions the loop of get_player_games skips a game for *)
PlayerGamesCaught ==
    {"KeyError", "ValueError", "JSONDecodeError", "AttributeError",
     "RequestException"}

(* the loop over games.iterrows() from game i on: the collected           *)
(* player_stats, or the exception that leaves the loop                    *)
RECURSIVE CollectGames(_, _, _, _, _)
CollectGames(games, i, player_name, last_n, player_stats) ==
    IF i > Len(games) THEN player_stats
    ELSE IF BoxScoreRaises(games[i].GAME_ID)
    THEN IF api.box_scores[games[i].GAME_ID].error \in PlayerGamesCaught
         THEN CollectGames(games, i + 1, player_name, last_n, player_stats)
         ELSE Raises(api.box_scores[games[i].GAME_ID].error)
    ELSE LET box == get_box_score(games[i].GAME_ID)
         IN  IF Empty(box)
             THEN CollectGames(games, i + 1, player_name, last_n, player_stats)
             ELSE LET player_row == PlayerRowsOf(box, player_name)
                  IN  IF Empty(player_row)
                      THEN CollectGames(games, i + 1, player_name, last_n,
                                        player_stats)
                      ELSE LET stats == Append(player_stats,
                                               StatLine(games[i], player_row[1]))
                           IN  IF Len(stats) >= last_n THEN stats
                               ELSE CollectGames(games, i + 1, player_name,
                                                 last_n, stats)

(* an uncaught box-score error among the games the loop reaches *)
RECURSIVE LoopRaises(_, _, _, _, _)
LoopRaises(games, i, player_name, last_n, collected) ==
    IF i > Len(games) THEN FALSE
    ELSE IF BoxScoreRaises(games[i].GAME_ID)
    THEN api.box_scores[games[i].GAME_ID].error \notin PlayerGamesCaught
    ELSE LET box == get_box_score(games[i].GAME_ID)
             found == ~Empty(box) /\ ~Empty(PlayerRowsOf(box, player_name))
         IN  IF found /\ collected + 1 >= last_n THEN FALSE
             ELSE LoopRaises(games, i + 1, player_name, last_n,
                             IF found THEN collected + 1 ELSE collected)

get_player_games(player_name, last_n) ==
    IF api.games.outcome = "raises" THEN Raises(api.games.error)
    ELSE LET games == get_games(GivenInt(last_n * 2))
         IN  IF LoopRaises(games, 1, player_name, last_n, 0)
             THEN CollectGames(games, 1, player_name, last_n, <<>>)
             ELSE WithPercentages(
                      CollectGames(games, 1, player_name, last_n, <<>>))

GetPlayerGames(player_name, last_n) ==
    /\ call' = [fn |-> "get_player_games", player_name |-> player_name,
                last_n |-> last_n]
    /\ result' = get_player_games(player_name, last_n)
    /\ UNCHANGED <<player_games, api>>

MaxLogGames == 3

LogGameIds == <<"G1", "G2", "G3", "G4">>

(* the season's first n games, oldest first *)
LogTable(n) == [i \in 1..n |-> GameRow(LogGameIds[i], GameDates[LogGameIds[i]])]

CobyWhite == BoxPlayer(BULLS_TEAM_ID, 1, "Coby", "White", 22, 8, 15, 3, 7, 3, 4)

JoshGiddey == BoxPlayer(BULLS_TEAM_ID, 2, "Josh", "Giddey", 12, 5, 11, 0, 2, 2, 2)

JaysonTatum ==
    BoxPlayer(OPPONENT_TEAM_ID, 9, "Jayson", "Tatum", 30, 10, 20, 4, 9, 6, 7)

(* failed fetch, empty box score, no Bulls rows, player absent, present *)
BoxAnswers ==
    { ApiRaises("RequestException"),
      ApiReturns(<<>>),
      ApiReturns(<<JaysonTatum>>),
      ApiReturns(<<JaysonTatum, JoshGiddey>>),
      ApiReturns(<<JaysonTatum, JoshGiddey, CobyWhite>>) }

LogAnswers ==
    {ApiRaises("RequestException")}
        \cup {ApiReturns(<<LogTable(n)>>) : n \in 0..MaxLogGames}

RequestedNames ==
    { <<"Coby", " ", "White">>, <<"coby", " ", "white">>,
      <<"Zach", " ", "LaVine">> }

LogLastN == {0, 1, 2}

InitPlayerGames ==
    /\ api \in [games : LogAnswers,
                box_scores : [{LogGameIds[i] : i \in 1..MaxLogGames}
                                -> BoxAnswers],
                shot_charts : {<<>>}]
    /\ player_games = <<>>
    /\ call = NoCall
    /\ result = EmptyDict

NextPlayerGames ==
    \E player_name \in RequestedNames, last_n \in LogLastN :
        GetPlayerGames(player_name, last_n)

SpecPlayerGames == InitPlayerGames /\ [][NextPlayerGames]_vars

GetPlayerGamesCalled == call.fn = "get_player_games"

(* C23: for any player name, any last_n >= 0 and any sequence of box-score  *)
(* outcomes, get_player_games never returns more than last_n rows.          *)
C23_AtMostLastN ==
    (GetPlayerGamesCalled /\ api.games.outcome = "returns")
        => Len(result) <= call.last_n

----------------------------------------------------------------------------
(* get_player_shots, get_team_shots and get_league_shots                    *)
(* (src/bulls/data/fetch.py)                                                *)

(* the first entries of NBA_TEAMS, in the dict's order *)
NBA_TEAMS ==
    << [abbr |-> "ATL", id |-> 1610612737, name |-> "Atlanta Hawks"],
       [abbr |-> "BOS", id |-> OPPONENT_TEAM_ID, name |-> "Boston Celtics"],
       [abbr |-> "CHI", id |-> BULLS_TEAM_ID, name |-> "Chicago Bulls"] >>

TeamAbbrs == {NBA_TEAMS[i].abbr : i \in DOMAIN NBA_TEAMS}

TeamIds == {NBA_TEAMS[i].id : i \in DOMAIN NBA_TEAMS}

(* NBA_TEAMS[abbr] *)
TeamInfo(abbr) ==
    NBA_TEAMS[CHOOSE i \in DOMAIN NBA_TEAMS : NBA_TEAMS[i].abbr = abbr]

(* one row of ShotChartDetail *)
ChartRow(player, game, zone, flag, type) ==
    [LOC_X |-> 12, LOC_Y |-> 80, SHOT_MADE_FLAG |-> flag, SHOT_TYPE |-> type,
     SHOT_ZONE_BASIC |-> zone, SHOT_DISTANCE |-> 8, GAME_ID |-> game,
     GAME_DATE |-> 20250110, PLAYER_ID |-> player,
     PLAYER_NAME |-> PlayerNames[player]]

(* ShotChartDetail(team_id, player_id): player_id 0 asks for the whole team *)
ShotChartDetail(team_id, player_id) ==
    LET answer == api.shot_charts[team_id]
    IN  IF answer.outcome = "raises" \/ player_id = 0 THEN answer
        ELSE IF answer.data = <<>> THEN answer
        ELSE ApiReturns(<<Filter(answer.data[1],
                {i \in DOMAIN answer.data[1] :
                    Get(answer.data[1][i], "PLAYER_ID", player_id) = player_id})>>)

(* '3PT' if '3PT' in str(x) else '2PT' *)
ShotType(x) == IF x = "3PT Field Goal" THEN "3PT" ELSE "2PT"

ChartRequired ==
    {"LOC_X", "LOC_Y", "SHOT_MADE_FLAG", "SHOT_TYPE", "SHOT_ZONE_BASIC",
     "SHOT_DISTANCE", "GAME_ID"}

(* the clean DataFrame built from the chart's columns *)
CleanShots(shots) ==
    [i \in DOMAIN shots |->
        [loc_x |-> shots[i].LOC_X, loc_y |-> shots[i].LOC_Y,
         shot_made |-> shots[i].SHOT_MADE_FLAG = 1,
         shot_type |-> ShotType(shots[i].SHOT_TYPE),
         shot_zone |-> shots[i].SHOT_ZONE_BASIC,
         shot_distance |-> shots[i].SHOT_DISTANCE,
         game_id |-> shots[i].GAME_ID,
         game_date |-> IF "GAME_DATE" \in DOMAIN shots[i]
                       THEN Num(shots[i].GAME_DATE) ELSE NaN]]

(* result['player_id'], result['player_name'] when the chart has them *)
WithPlayerInfo(result_, shots) ==
    [i \in DOMAIN result_ |->
        result_[i]
          @@ (IF "PLAYER_ID" \in DOMAIN shots[i]
              THEN [player_id |-> shots[i].PLAYER_ID] ELSE <<>>)
          @@ (IF "PLAYER_NAME" \in DOMAIN shots[i]
              THEN [player_name |-> shots[i].PLAYER_NAME] ELSE <<>>)]

(* the exceptions the shot fetchers turn into an empty table *)
ShotsCaught ==
    {"AttributeError", "KeyError", "IndexError", "RequestException",
     "JSONDecodeError", "ValueError"}

(* the exception the body of a shot fetcher raises, "" when it raises none *)
ShotsError(answer) ==
    IF answer.outcome = "raises" THEN answer.error
    ELSE IF answer.data = <<>> THEN "IndexError"
    ELSE IF Empty(answer.data[1]) THEN ""
    ELSE IF ~(ChartRequired \subseteq Columns(answer.data[1])) THEN "KeyError"
    ELSE ""

get_player_shots(player_id, team_id) ==
    LET answer == ShotChartDetail(team_id, player_id)
    IN  IF ShotsError(answer) /= ""
        THEN IF ShotsError(answer) \in ShotsCaught THEN <<>>
             ELSE Raises(ShotsError(answer))
        ELSE IF Empty(answer.data[1]) THEN <<>>
        ELSE CleanShots(answer.data[1])

get_team_shots(team_id) ==
    LET answer == ShotChartDetail(team_id, 0)
    IN  IF ShotsError(answer) /= ""
        THEN IF ShotsError(answer) \in ShotsCaught THEN <<>>
             ELSE Raises(ShotsError(answer))
        ELSE IF Empty(answer.data[1]) THEN <<>>
        ELSE WithPlayerInfo(CleanShots(answer.data[1]), answer.data[1])

TeamShotsRaises(team_id) ==
    /\ ShotsError(ShotChartDetail(team_id, 0)) /= ""
    /\ ShotsError(ShotChartDetail(team_id, 0)) \notin ShotsCaught

(* every row tagged as the default team's *)
TagBulls(shots, abbr) ==
    [i \in DOMAIN shots |->
        shots[i] @@ [team_id |-> BULLS_TEAM_ID, team_abbr |-> "CHI",
                     team_name |-> "Chicago Bulls"]]

(* shots["team_id"], shots["team_abbr"], shots["team_name"] *)
TagTeam(shots, abbr) ==
    [i \in DOMAIN shots |->
        shots[i] @@ [team_id |-> TeamInfo(abbr).id, team_abbr |-> abbr,
                     team_name |-> TeamInfo(abbr).name]]

(* pd.concat(all_shots, ignore_index=True) *)
RECURSIVE Concat(_)
Concat(all_shots) ==
    IF all_shots = <<>> THEN <<>>
    ELSE Head(all_shots) \o Concat(Tail(all_shots))

(* the loop over teams from entry i on: all_shots at its end *)
RECURSIVE CollectShots(_, _, _)
CollectShots(teams, i, all_shots) ==
    IF i > Len(teams) THEN all_shots
    ELSE IF teams[i] \notin TeamAbbrs
    THEN CollectShots(teams, i + 1, all_shots)
    ELSE IF TeamShotsRaises(TeamInfo(teams[i]).id)
    THEN CollectShots(teams, i + 1, all_shots)
    ELSE LET shots == get_team_shots(TeamInfo(teams[i]).id)
         IN  IF ~Empty(shots)
             THEN CollectShots(teams, i + 1,
                               Append(all_shots, TagTeam(shots, teams[i])))
             ELSE CollectShots(teams, i + 1, all_shots)

(* teams = list(NBA_TEAMS.keys()) when teams is None *)
TeamsOrDefault(teams) ==
    IF teams.given THEN teams.values
    ELSE [i \in DOMAIN NBA_TEAMS |-> NBA_TEAMS[i].abbr]

get_league_shots(teams) ==
    LET all_shots == CollectShots(TeamsOrDefault(teams), 1, <<>>)
    IN  IF all_shots = <<>> THEN <<>> ELSE Concat(all_shots)

GetLeagueShots(teams) ==
    /\ call' = [fn |-> "get_league_shots", teams |-> teams]
    /\ result' = get_league_shots(teams)
    /\ UNCHANGED <<player_games, api>>

MaxRequestedTeams == 2

ChartRows ==
    << ChartRow(1, "G1", "Restricted Area", 1, "2PT Field Goal"),
       ChartRow(2, "G1", "Above the Break 3", 0, "3PT Field Goal") >>

(* a failed request, an exception the fetcher does not catch, a response  *)
(* without data frames, an empty chart, a chart without its zone column,  *)
(* charts of one and of two shots                                         *)
ChartAnswers ==
    { ApiRaises("RequestException"),
      ApiRaises("TypeError"),
      ApiReturns(<<>>),
      ApiReturns(<< <<>> >>),
      ApiReturns(<<WithoutColumn(ChartRows, "SHOT_ZONE_BASIC")>>),
      ApiReturns(<<SubSeq(ChartRows, 1, 1)>>),
      ApiReturns(<<ChartRows>>) }

RequestedTeams ==
    {None} \cup
    {Given(teams) :
        teams \in SeqsUpTo(TeamAbbrs \cup {"XXX"}, MaxRequestedTeams)}

InitLeagueShots ==
    /\ api \in [games : {ApiReturns(<<>>)},
                box_scores : {<<>>},
                shot_charts : [TeamIds -> ChartAnswers]]
    /\ player_games = <<>>
    /\ call = NoCall
    /\ result = EmptyDict

NextLeagueShots == \E teams \in RequestedTeams : GetLeagueShots(teams)

SpecLeagueShots == InitLeagueShots /\ [][NextLeagueShots]_vars

GetLeagueShotsCalled == call.fn = "get_league_shots"

(* the team of a requested abbreviation returned shots *)
ReturnedShots(abbr) ==
    /\ abbr \in TeamAbbrs
    /\ api.shot_charts[TeamInfo(abbr).id].outcome = "returns"
    /\ api.shot_charts[TeamInfo(abbr).id].data /= <<>>
    /\ api.shot_charts[TeamInfo(abbr).id].data[1] /= <<>>
    /\ "SHOT_ZONE_BASIC" \in DOMAIN api.shot_charts[TeamInfo(abbr).id].data[1][1]

(* the number of shots the API holds for a requested abbreviation *)
ShotsHeld(abbr) ==
    IF ReturnedShots(abbr)
    THEN Len(api.shot_charts[TeamInfo(abbr).id].data[1]) ELSE 0

RECURSIVE ShotsHeldBefore(_, _)
ShotsHeldBefore(teams, i) ==
    IF i = 1 THEN 0
    ELSE ShotsHeldBefore(teams, i - 1) + ShotsHeld(teams[i - 1])

(* C26: requested teams are processed in order; unknown abbreviations,     *)
(* teams whose fetch raises and teams without shots are skipped without    *)
(* aborting the rest; the result is the concatenation, in request order,   *)
(* of the shots of exactly the teams that returned shots, each row tagged  *)
(* with its team_abbr, and is empty when no team returned shots.           *)
C26_LeagueShots ==
    GetLeagueShotsCalled =>
        LET teams == TeamsOrDefault(call.teams)
        IN  /\ Len(result) = ShotsHeldBefore(teams, Len(teams) + 1)
            /\ \A i \in DOMAIN teams :
                 \A k \in 1..ShotsHeld(teams[i]) :
                    LET row == result[ShotsHeldBefore(teams, i) + k]
                        shot == api.shot_charts[TeamInfo(teams[i]).id].data[1][k]
                    IN  /\ row.team_abbr = teams[i]
                        /\ row.team_id = TeamInfo(teams[i]).id
                        /\ row.shot_zone = shot.SHOT_ZONE_BASIC
                        /\ row.player_id = shot.PLAYER_ID
                        /\ row.shot_made = (shot.SHOT_MADE_FLAG = 1)
            /\ ((\A i \in DOMAIN teams : ~ReturnedShots(teams[i]))
                    => result = <<>>)

(* two teams were requested: the first fetch raised an exception the team  *)
(* fetcher does not catch, the second returned both of its shots           *)
C26_Witness ==
    /\ GetLeagueShotsCalled
    /\ call.teams = Given(<<"BOS", "CHI">>)
    /\ api.shot_charts[OPPONENT_TEAM_ID] = ApiRaises("TypeError")
    /\ Len(result) = 2
    /\ result[2].team_abbr = "CHI"

----------------------------------------------------------------------------
(* the fetch functions under failing API calls                              *)

GetBoxScore(game_id) ==
    /\ call' = [fn |-> "get_box_score", game_id |-> game_id]
    /\ result' = get_box_score(game_id)
    /\ UNCHANGED <<player_games, api>>

GetPlayerShots(player_id, team_id) ==
    /\ call' = [fn |-> "get_player_shots", player_id |-> player_id,
                team_id |-> team_id]
    /\ result' = get_player_shots(player_id, team_id)
    /\ UNCHANGED <<player_games, api>>

GetTeamShots(team_id) ==
    /\ call' = [fn |-> "get_team_shots", team_id |-> team_id]
    /\ result' = get_team_shots(team_id)
    /\ UNCHANGED <<player_games, api>>

MaxFetchGames == 2

FetchGameIds == {LogGameIds[i] : i \in 1..MaxFetchGames}

(* a connection error, an undecodable body, a body without data frames,   *)
(* a season of games                                                      *)
FetchGamesAnswers ==
    { ApiRaises("RequestException"), ApiRaises("JSONDecodeError"),
      ApiReturns(<<>>), ApiReturns(<<LogTable(MaxFetchGames)>>) }

FetchBoxAnswers ==
    { ApiRaises("RequestException"),
      ApiReturns(<<JaysonTatum, JoshGiddey, CobyWhite>>) }

FetchChartAnswers ==
    { ApiRaises("RequestException"), ApiReturns(<<>>), ApiReturns(<<ChartRows>>) }

InitFetch ==
    /\ api \in [games : FetchGamesAnswers,
                box_scores : [FetchGameIds -> FetchBoxAnswers],
                shot_charts : [TeamIds -> FetchChartAnswers]]
    /\ player_games = <<>>
    /\ call = NoCall
    /\ result = EmptyDict

NextFetch ==
    \/ \E last_n \in {None, GivenInt(1)} : GetGames(last_n)
    \/ \E game_id \in FetchGameIds : GetBoxScore(game_id)
    \/ GetPlayerGames(<<"Coby", " ", "White">>, MaxFetchGames)
    \/ \E player_id \in DOMAIN PlayerNames :
          GetPlayerShots(player_id, BULLS_TEAM_ID)
    \/ \E team_id \in TeamIds : GetTeamShots(team_id)
    \/ \E teams \in {None, Given(<<"CHI">>)} : GetLeagueShots(teams)

SpecFetch == InitFetch /\ [][NextFetch]_vars

(* the API call under the fetch function that was called failed: it       *)
(* raised, or its response held no data frame                             *)
AnswerFailed(answer) == answer.outcome = "raises" \/ answer.data = <<>>

UnderlyingCallFailed ==
    CASE call.fn \in {"get_games", "get_player_games"} ->
            AnswerFailed(api.games)
      [] call.fn = "get_box_score" ->
            AnswerFailed(api.box_scores[call.game_id])
      [] call.fn \in {"get_player_shots", "get_team_shots"} ->
            AnswerFailed(api.shot_charts[call.team_id])
      [] call.fn = "get_league_shots" ->
            \A i \in DOMAIN TeamsOrDefault(call.teams) :
                AnswerFailed(api.shot_charts[
                    TeamInfo(TeamsOrDefault(call.teams)[i]).id])
      [] OTHER -> FALSE

(* C24: every table-returning fetch function returns an empty table, and   *)
(* raises nothing, when its underlying API call fails with a network       *)
(* error or a malformed response.                                          *)
C24_EmptyOnFailure == UnderlyingCallFailed => result = <<>>

----------------------------------------------------------------------------
(* zone_leaders on tables in which players tie on points per game          *)

MaxTieShots == 3

TieRows ==
    { ShotRow(1, "G1", "CHI", "Restricted Area", TRUE, "2PT"),
      ShotRow(1, "G2", "CHI", "Restricted Area", TRUE, "2PT"),
      ShotRow(2, "G1", "CHI", "Restricted Area", TRUE, "2PT"),
      ShotRow(2, "G1", "CHI", "Restricted Area", FALSE, "2PT"),
      ShotRow(2, "G2", "CHI", "Left Corner 3", TRUE, "3PT") }

InitTies ==
    /\ player_games \in SeqsUpTo(TieRows, MaxTieShots)
    /\ call = NoCall
    /\ result = EmptyDict
    /\ api = NoApi

SpecTies == InitTies /\ [][NextLeaders]_vars

(* the shots zone_leaders considered in the call just made *)
TieShots ==
    IF call.exclude_backcourt THEN NotBackcourt(player_games) ELSE player_games

(* player q meets min_shots in the zone with the ppg of the reported       *)
(* leader                                                                  *)
TiedWithLeader(q, zone) ==
    /\ q \in Qualified(TieShots, zone, call.min_shots)
    /\ PointsOf(Group(TieShots, q, zone)) * result[zone].games
         = result[zone].total_points * UniqueGames(Group(TieShots, q, zone))

(* C25: among players meeting min_shots with identical points per game in  *)
(* a zone, zone_leaders reports the one with the smallest player_id, and   *)
(* the report is the same for every order of the input rows.               *)
C25_TieBreak ==
    ZoneLeadersCalled =>
        /\ \A zone \in DOMAIN result :
             \A q \in PlayersOf(TieShots) :
                TiedWithLeader(q, zone) => result[zone].player_id <= q
        /\ \A f \in RowOrders(Len(player_games)) :
             zone_leaders(Permuted(player_games, f), call.min_shots,
                          call.exclude_backcourt) = result

(* players 1 and 2 tie in the Restricted Area, player 2's shot comes first *)
(* in the table, and player 1 is reported                                  *)
C25_Witness ==
    /\ ZoneLeadersCalled
    /\ Len(player_games) >= 2
    /\ player_games[1].player_id = 2
    /\ "Restricted Area" \in DOMAIN result
    /\ result["Restricted Area"].player_id = 1
    /\ TiedWithLeader(2, "Restricted Area")

----------------------------------------------------------------------------
(* points_per_shot: the per-zone statistics against the overall ones       *)

RECURSIVE SumOverZones(_, _, _)
SumOverZones(by_zone, zones, field) ==
    IF zones = {} THEN 0
    ELSE LET zone == CHOOSE z \in zones : TRUE
         IN  by_zone[zone][field]
                + SumOverZones(by_zone, zones \ {zone}, field)

(* C28: with by_zone=True on a table whose shots all carry a zone label,   *)
(* the zones of by_zone partition the considered shots: their total_shots  *)
(* sum to the overall total_shots, their total_points to the overall       *)
(* total_points, and no zone has total_shots 0.                            *)
C28_ZonesPartition ==
    (PointsPerShotCalled /\ call.by_zone /\ result /= EmptyDict) =>
        LET zones == DOMAIN result.by_zone
        IN  /\ SumOverZones(result.by_zone, zones, "total_shots")
                 = result.overall.total_shots
            /\ SumOverZones(result.by_zone, zones, "total_points")
                 = result.overall.total_points
            /\ \A zone \in zones : result.by_zone[zone].total_shots > 0

(* three shots, one of them a Backcourt shot the call leaves out, the      *)
(* other two in two zones                                                  *)
C28_Witness ==
    /\ PointsPerShotCalled
    /\ call.by_zone
    /\ call.exclude_backcourt
    /\ Len(player_games) = 3
    /\ result /= EmptyDict
    /\ result.overall.total_shots = 2
    /\ Cardinality(DOMAIN result.by_zone) = 2

----------------------------------------------------------------------------
(* zone_value_ranking (src/bulls/analysis/stats.py) on the result of       *)
(* league_pps_by_zone                                                      *)

RankingColumns == {"Zone", "PPS", "FG%", "Points", "Shots", "Volume%", "Rank"}

(* the dict appended to zones *)
RankingRow(zone, stats) ==
    [c \in RankingColumns |->
        CASE c = "Zone"    -> zone
          [] c = "PPS"     -> stats.pps
          [] c = "FG%"     -> stats.fg_pct
          [] c = "Points"  -> stats.total_points
          [] c = "Shots"   -> stats.total_shots
          [] c = "Volume%" -> stats.pct_of_shots
          [] c = "Rank"    -> stats.rank]

(* the zones of by_zone the loop keeps *)
KeptZones(by_zone, exclude_backcourt) ==
    {zone \in DOMAIN by_zone : ~(exclude_backcourt /\ zone = "Backcourt")}

(* pd.DataFrame(zones).sort_values('Rank').reset_index(drop=True); the     *)
(* ranks league_pps_by_zone assigns are distinct                           *)
SortByRank(by_zone, kept) ==
    [i \in 1..Cardinality(kept) |->
        LET zone == CHOOSE z \in kept :
                        Cardinality({y \in kept :
                            by_zone[y].rank < by_zone[z].rank}) = i - 1
        IN  RankingRow(zone, by_zone[zone])]

zone_value_ranking(league_pps, exclude_backcourt) ==
    IF league_pps = EmptyDict THEN <<>>
    ELSE IF "by_zone" \notin DOMAIN league_pps THEN <<>>
    ELSE LET kept == KeptZones(league_pps.by_zone, exclude_backcourt)
         IN  IF kept = {} THEN KeyError("Rank")
             ELSE SortByRank(league_pps.by_zone, kept)

(* zone_value_ranking(league_pps_by_zone(league_shots, league_exclude),    *)
(*                    exclude_backcourt)                                   *)
ZoneValueRanking(league_exclude, exclude_backcourt) ==
    /\ call' = [fn |-> "zone_value_ranking", league_exclude |-> league_exclude,
                exclude_backcourt |-> exclude_backcourt]
    /\ result' = zone_value_ranking(
                     league_pps_by_zone(player_games, league_exclude),
                     exclude_backcourt)
    /\ UNCHANGED <<player_games, api>>

NextRanking ==
    \E league_exclude \in BOOLEAN, exclude_backcourt \in BOOLEAN :
        ZoneValueRanking(league_exclude, exclude_backcourt)

SpecRanking == InitLeague /\ [][NextRanking]_vars

RankingCalled ==
    /\ call.fn = "zone_value_ranking"
    /\ player_games /= <<>>
    /\ LeagueRequired \subseteq Columns(player_games)

(* the zones of the input shots that neither call leaves out *)
RankedZones ==
    {player_games[i].shot_zone : i \in DOMAIN player_games}
        \ (IF call.league_exclude \/ call.exclude_backcourt
           THEN {"Backcourt"} ELSE {})

(* C29: for every shot table with the required columns, zone_value_ranking *)
(* of the league_pps_by_zone result returns a table, one row per ranked    *)
(* zone, and raises nothing; with no zone to rank (every shot in Backcourt *)
(* and Backcourt excluded) the table is empty.                             *)
C29_RankingNeverRaises ==
    RankingCalled =>
        IF RankedZones = {} THEN result = <<>>
        ELSE Len(result) = Cardinality(RankedZones)

(* C30: for every combination of the two exclude_backcourt flags the table *)
(* is ordered by Rank ascending and its Rank column is 1, 2, ..., k.       *)
C30_RanksContiguous ==
    (RankingCalled /\ RankedZones /= {}) =>
        \A i \in DOMAIN result : result[i].Rank = i

====
